---- MODULE Spec2Model ----
(***************************************************************************)
(* Model of the animation / state / caching core of matrix_scene_composer: *)
(*   component.py     Component.render, cache_with_dict                     *)
(*   animation.py     Animation, Animate, Sequence, Parallel, Loop,         *)
(*                    GravityJump                                           *)
(*   scene.py         Scene (children, property bags, animation phases)     *)
(*   orchestrator.py  Orchestrator (clock, phase transitions, frames)       *)
(*                                                                         *)
(* Times, durations and property values are integers.  Python evaluates    *)
(* elapsed / duration and the interpolation in binary floating point; the  *)
(* model evaluates them as exact rationals (numerator, denominator) and    *)
(* applies int() as truncation toward zero.                                 *)
(***************************************************************************)
EXTENDS Integers, Sequences, FiniteSets, TLC

\* ------------------------------------------------------------------ bounds
MaxTime == 3            \* largest clock value a driver reaches
MaxCalls == 4           \* most runs of one component's _render_cached body
LeafCacheMax == 2       \* stands for maxsize of a leaf's cache_with_dict
SceneCacheMax == 2      \* stands for maxsize=32 of Scene._render_cached
MaxElapsed == 4         \* largest elapsed value passed to update directly
MaxVal == 4             \* largest absolute value of a property in a bag
MaxOps == 3             \* most calls the application makes besides rendering
MaxSize == 2            \* largest size of a scrolled widget besides the scenario's
MaxEdits == 4           \* most changes made between the renders of a run

\* ----------------------------------------------------------------- helpers
\* a conversion that rounds toward minus infinity
Floor(n, d) == n \div d

\* int(n / d) for d > 0: Python's int() truncates toward zero
Trunc(n, d) == IF n >= 0 THEN n \div d ELSE -((-n) \div d)

Max2(a, b) == IF a >= b THEN a ELSE b

RECURSIVE SumSeq(_)
SumSeq(s) == IF s = << >> THEN 0 ELSE Head(s) + SumSeq(Tail(s))

RECURSIVE MaxSeq(_)
MaxSeq(s) == IF Len(s) = 1 THEN s[1] ELSE Max2(Head(s), MaxSeq(Tail(s)))

\* a property dictionary {p: v}; NoParams is the empty dictionary
NoParams == [p \in {} |-> 0]
P1(p, v) == [q \in {p} |-> v]

\* dict.get(p, 0)
Get(d, p) == IF p \in DOMAIN d THEN d[p] ELSE 0

\* d[p] = v
Put(d, p, v) == [q \in (DOMAIN d) \cup {p} |-> IF q = p THEN v ELSE d[q]]

\* F applied to the value of x, which is computed once
Bind(x, F(_)) == CHOOSE y \in {F(v) : v \in {x}} : TRUE

\* float("inf"), the duration of a Loop without count
Infinity == 1000000

\* ------------------------------------------------- animation constructors
\* One record shape for every animation class; a field a class does not
\* have keeps its default.
AnimDefaults ==
  [kind |-> "Animate", target |-> "a", duration |-> 1, easing |-> "linear",
   from_params_int |-> NoParams, from_params_rel_int |-> NoParams,
   to_params_int |-> NoParams, to_params_rel_int |-> NoParams,
   from_params |-> NoParams, from_params_rel |-> NoParams,
   to_params |-> NoParams, to_params_rel |-> NoParams,
   animations |-> << >>, count |-> -1, param |-> "y", height |-> 0]

Animate(target, fi, fri, ti, tri, duration, easing) ==
  [AnimDefaults EXCEPT !.kind = "Animate", !.target = target,
     !.from_params_int = fi, !.from_params_rel_int = fri,
     !.to_params_int = ti, !.to_params_rel_int = tri,
     !.duration = duration, !.easing = easing]

\* SlideIn.__init__ and SlideOut.__init__: the direction gives the axis and
\* the sign of the offset, both dictionaries are _rel_int ones
SlideAxis(direction) == IF direction \in {"left", "right"} THEN "x" ELSE "y"
SlideSign(direction) == IF direction \in {"left", "top"} THEN -1 ELSE 1

SlideIn(target, direction, distance, duration) ==
  Animate(target, NoParams,
          P1(SlideAxis(direction), SlideSign(direction) * distance),
          NoParams, P1(SlideAxis(direction), 0), duration, "ease_out")

SlideOut(target, direction, distance, duration) ==
  Animate(target, NoParams, P1(SlideAxis(direction), 0), NoParams,
          P1(SlideAxis(direction), SlideSign(direction) * distance),
          duration, "ease_in")

GravityJump(target, param, height, duration) ==
  [AnimDefaults EXCEPT !.kind = "GravityJump", !.target = target,
     !.param = param, !.height = height, !.duration = duration]

\* The leaf animation objects of the model.
\*   e1, e2  entrance of the root scene (e2 starts one time unit late)
\*   i1      idle of the root scene, x1 its exit, k1 its custom phase
\*   q1, q2  the steps of the nested scene's entrance Sequence
\*   z0      an Animate of duration 0, g0 a GravityJump of duration 0,
\*   g1      a GravityJump of height 2 over 2 time units
\*   u1      an Animate on x used inside Loop and Parallel
\*   u2      an Animate on y used inside Parallel
\*   u3      an Animate on y from 1 above to 2 above the current value
LeafAnimCfg ==
  [e1 |-> Animate("a", P1("x", 0), NoParams, P1("x", 2), NoParams, 2, "linear"),
   e2 |-> Animate("a", NoParams, NoParams, P1("x", 2), NoParams, 1, "linear"),
   i1 |-> Animate("a", P1("x", 1), NoParams, P1("x", 2), NoParams, 1, "linear"),
   x1 |-> Animate("a", NoParams, NoParams, P1("x", 3), NoParams, 1, "ease_in"),
   k1 |-> Animate("a", P1("x", 1), NoParams, P1("x", 1), NoParams, 1, "linear"),
   q1 |-> Animate("c", NoParams, NoParams, P1("x", 2), NoParams, 1, "linear"),
   q2 |-> Animate("c", P1("x", 0), NoParams, P1("x", 3), NoParams, 1, "linear"),
   z0 |-> Animate("a", NoParams, NoParams, P1("x", 1), NoParams, 0, "linear"),
   g0 |-> GravityJump("a", "y", 2, 0),
   g1 |-> GravityJump("a", "y", 2, 2),
   u1 |-> Animate("a", P1("x", 0), NoParams, P1("x", 3), NoParams, 2, "ease_out"),
   u2 |-> Animate("a", NoParams, NoParams, NoParams, P1("y", 2), 1, "linear"),
   u3 |-> Animate("a", NoParams, P1("y", -1), NoParams, P1("y", 2), 2, "linear")]

LeafAnimIds == DOMAIN LeafAnimCfg

\* Sequence.__init__: target of the first animation, duration the sum
Sequence(ids) ==
  [AnimDefaults EXCEPT !.kind = "Sequence",
     !.target = LeafAnimCfg[ids[1]].target,
     !.duration = SumSeq([i \in 1..Len(ids) |-> LeafAnimCfg[ids[i]].duration]),
     !.animations = ids]

\* Parallel.__init__: target of the first animation, duration the maximum
Parallel(ids) ==
  [AnimDefaults EXCEPT !.kind = "Parallel",
     !.target = LeafAnimCfg[ids[1]].target,
     !.duration = MaxSeq([i \in 1..Len(ids) |-> LeafAnimCfg[ids[i]].duration]),
     !.animations = ids]

\* Loop.__init__: count = -1 stands for count=None
Loop(id, count) ==
  [AnimDefaults EXCEPT !.kind = "Loop",
     !.target = LeafAnimCfg[id].target,
     !.duration = IF count = -1 THEN Infinity
                  ELSE LeafAnimCfg[id].duration * count,
     !.animations = << id >>, !.count = count]

\* The combinator objects of the model.
\*   s1  entrance of the nested scene
\*   l1  a Loop of two iterations, lz a Loop around the Animate of duration 0
\*   li  a Loop without count, p1 a Parallel
\*   l3  a Loop without count around the Animate relative to the current value
GroupAnimCfg ==
  [s1 |-> Sequence(<< "q1", "q2" >>),
   l1 |-> Loop("u1", 2),
   li |-> Loop("u2", -1),
   lz |-> Loop("z0", -1),
   l3 |-> Loop("u3", -1),
   p1 |-> Parallel(<< "u1", "u2" >>)]

GroupAnimIds == DOMAIN GroupAnimCfg
AnimIds == LeafAnimIds \cup GroupAnimIds

AnimCfg == [id \in AnimIds |->
              IF id \in LeafAnimIds THEN LeafAnimCfg[id] ELSE GroupAnimCfg[id]]

\* the fields every animation object got from its constructor; no call
\* changes them
VARIABLE acfg

\* --------------------------------------------------- animation objects
\* The mutable fields of an animation object (one shape for every class):
\*   completed                      Animation.completed
\*   resolved, rfrom, rto           Animate._resolved_from / _resolved_to
\*   current_index                  Sequence.current_index
\*   current_iteration              Loop.current_iteration
\*   y0 (<< >> is None), physics    GravityJump._y0, and _v0/_g being set
AnimInit ==
  [completed |-> FALSE, resolved |-> FALSE, rfrom |-> NoParams,
   rto |-> NoParams, current_index |-> 0, current_iteration |-> 0,
   y0 |-> << >>, physics |-> FALSE]

\* result of a call: the animation objects, the property bag, the return
\* value, and whether the call raised
Res(A, bg, ret, err) == [A |-> A, bag |-> bg, ret |-> ret, err |-> err]

\* EASING_FUNCTIONS[easing](n / d) as a fraction << numerator, denominator >>
ApplyEasing(easing, n, d) ==
  CASE easing = "linear"   -> << n, d >>
    [] easing = "ease_in"  -> << n * n, d * d >>
    [] easing = "ease_out" -> << n * (2 * d - n), d * d >>

\* Animate._resolve_params: the set of animated parameters
AllParams(c) ==
  DOMAIN c.from_params \cup DOMAIN c.from_params_rel
    \cup DOMAIN c.to_params \cup DOMAIN c.to_params_rel
    \cup DOMAIN c.from_params_int \cup DOMAIN c.from_params_rel_int
    \cup DOMAIN c.to_params_int \cup DOMAIN c.to_params_rel_int

\* a resolution that looks at to_params before the _int variants
ResolveTo_plain_first(c, bg, p) ==
  IF p \in DOMAIN c.to_params THEN c.to_params[p]
  ELSE IF p \in DOMAIN c.to_params_int THEN c.to_params_int[p]
  ELSE IF p \in DOMAIN c.to_params_rel_int
       THEN Get(bg, p) + c.to_params_rel_int[p]
  ELSE IF p \in DOMAIN c.to_params_rel
       THEN Get(bg, p) + c.to_params_rel[p]
  ELSE Get(bg, p)

\* Animate._resolve_params: to_val of one parameter, current = state.get(p, 0)
ResolveTo(c, bg, p) ==
  IF p \in DOMAIN c.to_params_int THEN c.to_params_int[p]
  ELSE IF p \in DOMAIN c.to_params_rel_int
       THEN Get(bg, p) + c.to_params_rel_int[p]
  ELSE IF p \in DOMAIN c.to_params THEN c.to_params[p]
  ELSE IF p \in DOMAIN c.to_params_rel
       THEN Get(bg, p) + c.to_params_rel[p]
  ELSE Get(bg, p)

\* Animate._resolve_params: from_val of one parameter
ResolveFrom(c, bg, p) ==
  IF p \in DOMAIN c.from_params_int THEN c.from_params_int[p]
  ELSE IF p \in DOMAIN c.from_params_rel_int
       THEN ResolveTo(c, bg, p) + c.from_params_rel_int[p]
  ELSE IF p \in DOMAIN c.from_params THEN c.from_params[p]
  ELSE IF p \in DOMAIN c.from_params_rel
       THEN ResolveTo(c, bg, p) + c.from_params_rel[p]
  ELSE Get(bg, p)

\* a resolution that is done again at every apply
resolve_params_again(s, c, bg) ==
  [s EXCEPT !.resolved = TRUE,
            !.rfrom = [p \in AllParams(c) |-> ResolveFrom(c, bg, p)],
            !.rto = [p \in AllParams(c) |-> ResolveTo(c, bg, p)]]

\* Animate._resolve_params: no effect once resolved
resolve_params(s, c, bg) ==
  IF s.resolved THEN s
  ELSE [s EXCEPT !.resolved = TRUE,
                 !.rfrom = [p \in AllParams(c) |-> ResolveFrom(c, bg, p)],
                 !.rto = [p \in AllParams(c) |-> ResolveTo(c, bg, p)]]

\* Animate._apply at progress n / d: every parameter of the model is declared
\* through an _int variant, so the interpolated value goes through int()
Animate_apply(A, id, bg, n, d) ==
  Bind(resolve_params(A[id], acfg[id], bg), LAMBDA s :
    LET val(p) == Trunc(s.rfrom[p] * d + (s.rto[p] - s.rfrom[p]) * n, d)
        nbg == [q \in DOMAIN bg \cup DOMAIN s.rfrom |->
                  IF q \in DOMAIN s.rfrom THEN val(q) ELSE bg[q]]
    IN Res([A EXCEPT ![id] = s], nbg, FALSE, FALSE))

\* GravityJump._resolve_physics and _apply at progress n / d.
\* _y0 is stored before 4 * height / T is evaluated, so a zero duration
\* raises ZeroDivisionError with _y0 set and _v0, _g still None; the next
\* _apply then skips the resolution and raises on None * t.
\*   displacement = v0*t - 0.5*g*t*t = 4*height*(n/d)*(1 - n/d)
GravityJump_apply(A, id, bg, n, d) ==
  LET c == acfg[id]
      s == A[id]
      s1 == IF s.y0 = << >> THEN [s EXCEPT !.y0 = << Get(bg, c.param) >>,
                                            !.physics = (c.duration # 0)]
            ELSE s
      y == Trunc(s1.y0[1] * d * d - 4 * c.height * n * (d - n), d * d)
  IN IF ~s1.physics THEN Res([A EXCEPT ![id] = s1], bg, FALSE, TRUE)
     ELSE Res([A EXCEPT ![id] = s1], Put(bg, c.param, y), FALSE, FALSE)

apply(A, id, bg, n, d) ==
  IF acfg[id].kind = "GravityJump" THEN GravityJump_apply(A, id, bg, n, d)
  ELSE Animate_apply(A, id, bg, n, d)

\* an update that forgets that the animation has completed
completed_forgotten(s) == FALSE

\* if self.completed: return True
is_completed(s) == s.completed

\* Animation.update, inherited by Animate and GravityJump
Animation_update(A, id, bg, elapsed) ==
  LET c == acfg[id] IN
  IF is_completed(A[id]) THEN Res(A, bg, TRUE, FALSE)
  ELSE IF elapsed >= c.duration THEN
    Bind(apply(A, id, bg, 1, 1), LAMBDA r :
      IF r.err THEN r
      ELSE Res([r.A EXCEPT ![id].completed = TRUE], r.bag, TRUE, FALSE))
  ELSE IF c.duration = 0 THEN Res(A, bg, FALSE, TRUE)
  ELSE LET e == ApplyEasing(c.easing, elapsed, c.duration)
       IN apply(A, id, bg, e[1], e[2])

\* Animate.reset and GravityJump.reset
Animation_reset(A, id) ==
  IF acfg[id].kind = "Animate"
  THEN [A EXCEPT ![id].completed = FALSE, ![id].resolved = FALSE,
                 ![id].rfrom = NoParams, ![id].rto = NoParams]
  ELSE [A EXCEPT ![id].completed = FALSE, ![id].y0 = << >>,
                 ![id].physics = FALSE]

\* for anim in self.animations: anim.reset().  The animations wrapped by the
\* Sequence, Parallel and Loop objects of the model are Animate and
\* GravityJump objects.
RECURSIVE resetAll(_, _)
resetAll(A, ids) ==
  IF ids = << >> THEN A
  ELSE resetAll(Animation_reset(A, Head(ids)), Tail(ids))

\* reset() of every class
reset(A, id) ==
  LET c == acfg[id] IN
  CASE c.kind = "Sequence" ->
         resetAll([A EXCEPT ![id].completed = FALSE,
                            ![id].current_index = 0], c.animations)
    [] c.kind = "Parallel" ->
         resetAll([A EXCEPT ![id].completed = FALSE], c.animations)
    [] c.kind = "Loop" ->
         resetAll([A EXCEPT ![id].completed = FALSE,
                            ![id].current_iteration = 0], c.animations)
    [] OTHER -> Animation_reset(A, id)

\* ------------------------------------------------------------- update
\* Sequence.update; current_anim.update is Animation.update for the
\* wrapped objects of the model
Sequence_update(A, id, bg, elapsed) ==
  LET c == acfg[id]
      idx == A[id].current_index
      elapsed_in_sequence ==
        elapsed - SumSeq([i \in 1..idx |-> acfg[c.animations[i]].duration])
  IN IF A[id].completed THEN Res(A, bg, TRUE, FALSE)
     ELSE Bind(Animation_update(A, c.animations[idx + 1], bg,
                                elapsed_in_sequence), LAMBDA r :
       IF r.err THEN r
       ELSE IF ~r.ret THEN Res(r.A, r.bag, FALSE, FALSE)
       ELSE IF idx + 1 >= Len(c.animations)
            THEN Res([r.A EXCEPT ![id].current_index = idx + 1,
                                 ![id].completed = TRUE], r.bag, TRUE, FALSE)
            ELSE Res([r.A EXCEPT ![id].current_index = idx + 1],
                     r.bag, FALSE, FALSE))

\* a loop that reports what the animation updated last returned
last_complete(all, ret) == ret

\* if not anim.update(state, elapsed): all_complete = False
all_complete(all, ret) == all /\ ret

\* Parallel.update: the loop over self.animations; all is all_complete
RECURSIVE Parallel_loop(_, _, _, _, _)
Parallel_loop(A, ids, bg, elapsed, all) ==
  IF ids = << >> THEN Res(A, bg, all, FALSE)
  ELSE IF A[Head(ids)].completed
       THEN Parallel_loop(A, Tail(ids), bg, elapsed, all)
  ELSE Bind(Animation_update(A, Head(ids), bg, elapsed), LAMBDA r :
         IF r.err THEN r
         ELSE Parallel_loop(r.A, Tail(ids), r.bag, elapsed,
                            all_complete(all, r.ret)))

Parallel_update(A, id, bg, elapsed) ==
  IF A[id].completed THEN Res(A, bg, TRUE, FALSE)
  ELSE Bind(Parallel_loop(A, acfg[id].animations, bg, elapsed, TRUE),
         LAMBDA r :
         IF r.err THEN r
         ELSE Res([r.A EXCEPT ![id].completed = r.ret], r.bag, r.ret, FALSE))

\* a Loop that never sees a new iteration
new_iteration_never(iteration, current_iteration) == FALSE

\* if iteration > self.current_iteration
new_iteration(iteration, current_iteration) == iteration > current_iteration

\* a Loop that runs one iteration more than its count
count_exceeded_late(count, current_iteration) ==
  count # -1 /\ current_iteration > count

\* self.count is not None and self.current_iteration >= self.count
count_exceeded(count, current_iteration) ==
  count # -1 /\ current_iteration >= count

\* Loop.update: elapsed / duration raises ZeroDivisionError for a wrapped
\* animation of duration 0; elapsed >= 0 and the wrapped duration is finite
Loop_update(A, id, bg, elapsed) ==
  LET c == acfg[id]
      child == c.animations[1]
      d == acfg[child].duration
      iteration == Trunc(elapsed, d)
      elapsed_in_iteration == elapsed % d
      restarted ==
        IF new_iteration(iteration, A[id].current_iteration)
        THEN [Animation_reset(A, child) EXCEPT
                ![id].current_iteration = iteration]
        ELSE A
  IN IF A[id].completed THEN Res(A, bg, TRUE, FALSE)
     ELSE IF d = 0 THEN Res(A, bg, FALSE, TRUE)
     ELSE Bind(restarted, LAMBDA A1 :
       IF count_exceeded(c.count, A1[id].current_iteration)
       THEN Res([A1 EXCEPT ![id].completed = TRUE], bg, TRUE, FALSE)
       ELSE Bind(Animation_update(A1, child, bg, elapsed_in_iteration),
                 LAMBDA r :
              IF r.err THEN r ELSE Res(r.A, r.bag, FALSE, FALSE)))

\* anim.update(state, elapsed), dispatched on the class of the object
update(A, id, bg, elapsed) ==
  CASE acfg[id].kind = "Sequence" -> Sequence_update(A, id, bg, elapsed)
    [] acfg[id].kind = "Parallel" -> Parallel_update(A, id, bg, elapsed)
    [] acfg[id].kind = "Loop" -> Loop_update(A, id, bg, elapsed)
    [] OTHER -> Animation_update(A, id, bg, elapsed)

\* ---------------------------------------------------------- components
\* The component objects of the model: the Scene R, the Scene N that is
\* added to R as a child, the leaf a (a child of R) and the leaf c (a child
\* of N).  A child id names the component object added under it.
Scenes == {"R", "N"}
Leaves == {"a", "c"}
Comps == Scenes \cup Leaves
Values == 1..3          \* the values of a leaf's configuration attribute
Params == {"x", "y"}
NoPhase == "None"       \* _current_phase = None
Unknown == "bogus"      \* a phase name that is not registered

VARIABLES
  comp,          \* Component fields of every object: _rendered_at,
                 \*   _last_state, _focused, _render_cache, and the number of
                 \*   runs of its _render_cached body
  value,         \* the configuration attribute of each leaf
  children,      \* Scene.children of each scene: the child ids in dict order
  bag,           \* ComponentInstance.state of each child of each scene
  cur,           \* Scene.current_animations: << start_time, animation >>
  phase,         \* Scene._current_phase
  stime,         \* Scene._time
  phases,        \* entrance_animations, idle_animations, exit_animations and
                 \*   _custom_phases of each scene
  anim,          \* the mutable fields of every animation object
  debug,         \* Component.DEBUG_RENDER
  otime,         \* Orchestrator.time
  current_scene, \* Orchestrator.current_scene_id (NoPhase: no scene)
  ret,           \* the buffer returned by the last render call
  log,           \* the calls made inside the last operation, in order
  last,          \* the last operation, the object it was called on and its
                 \*   argument; t is the time of the latest render or frame
  nops,          \* number of calls made by the application so far
  pbag,          \* a property bag that update is called on directly
  ares           \* outcome of the last direct update: returned, raised

\* The render loop of Scene.start_async on the scene R, and a coroutine that
\* runs R.await_phase_complete next to it.
VARIABLES
  running,       \* Scene._running of R
  pc,            \* where the coroutine of start_async is: "new" (not started),
                 \*   "test" (at while self._running), "render", "callback",
                 \*   "after" (the checks after the callback), "sleep" (at
                 \*   await asyncio.sleep), "done"
  now,           \* time.time()
  t0,            \* start_time of start_async
  duration,      \* the duration argument of start_async; 0 stands for None
  stopped,       \* where the loop was when stop() was first called on it
  display,       \* the buffer the display callback was last called with
  wpc,           \* the other coroutine; in await_phase_complete: "off",
                 \*   "waiting", "true", "false"; in __aexit__: "exiting"
                 \*   (at its sleep), "join" (at await self._render_task)
  wphase,        \* its phase argument (NoPhase: None)
  wstart,        \* its start_wait
  wtimeout,      \* its timeout argument; 0 stands for None
  wseen          \* the awaited phase was complete at a moment of the wait

\* A tick of the render loop on the scene R, and another thread that calls
\* R.set_animation_phase while the tick runs.  The interpreter switches
\* threads between the steps named here.
VARIABLES
  th,            \* the call of set_animation_phase in the other thread: pc is
                 \*   "idle" (no call), "named" (_current_phase is assigned),
                 \*   "load" (the list is cleared; i animations are loaded);
                 \*   ph is its argument, T the _time it read
  tk,            \* the tick: pc is "idle", "loop" (in _check_phase_complete
                 \*   after the test for an empty list), "max" (after its
                 \*   for loop), "elif" (at the second condition),
                 \*   "transition", "render"; ph is the phase name the
                 \*   condition read, t the scene time
  terr,          \* an exception has left the tick
  torn           \* compute_state has run on a list that was partly loaded

threadvars == << th, tk, terr, torn >>

\* Components outside the scene R: the children of a Layout, a Scrollbar, a
\* TextComponent and a TableComponent.
VARIABLES
  widget,        \* Component fields of the components given to the Layout
  lay,           \* Layout: children (the ids in list order),
                 \*   _focusable_children and _focused_child
  sb,            \* Scrollbar: viewport_size, content_size, scroll_position
  txt,           \* TextComponent: _needs_scroll, _text_width, _width, padding,
                 \*   scroll_offset_x, _autoscroll_enabled
  tbl            \* TableComponent: _full_width, _display_width, _full_height,
                 \*   _display_height, scroll_offset_x, scroll_offset_y

widgetvars == << widget, lay, sb, txt, tbl >>

loopvars == << running, pc, now, t0, duration, stopped, display, wpc, wphase,
               wstart, wtimeout, wseen, threadvars, widgetvars >>

vars == << acfg, comp, value, children, bag, cur, phase, stime, phases, anim, debug,
           otime, current_scene, ret, log, last, nops, pbag, ares, loopvars >>

\* The objects a call can change, passed through the operators below.
Heap == [comp |-> comp, value |-> value, children |-> children, bag |-> bag,
         cur |-> cur, phase |-> phase, stime |-> stime, phases |-> phases,
         anim |-> anim, debug |-> debug, log |-> << >>, err |-> FALSE]

\* an entry of log
Ev(ev, who, child, a, el, ch) ==
  [ev |-> ev, who |-> who, child |-> child, anim |-> a, el |-> el, ch |-> ch]

\* a RenderBuffer object: obj names the _render_cached run that created it,
\* copy tells a buffer.copy() of it from the original, px is its content,
\* outline the focus outline of _apply_debug_render
Buffer(id, n, px) == [obj |-> << id, n >>, copy |-> FALSE, px |-> px,
                      outline |-> FALSE]
NoBuffer == Buffer("-", 0, << >>)

\* _make_hashable: a dict becomes the sorted tuple of its (key, value) pairs,
\* modelled as the set of these pairs; the dict under 'children' and the
\* dicts in it are converted recursively, every other value is a number, a
\* boolean or an already converted key
MakeHashableDict(d) == {<< k, d[k] >> : k \in DOMAIN d}

make_hashable(state) ==
  {<< k, IF k = "children"
         THEN {<< cid, MakeHashableDict(state[k][cid]) >> :
                 cid \in DOMAIN state[k]}
         ELSE state[k] >> : k \in DOMAIN state}

\* keys of a _render_cache, and the buffer stored under a key
CacheKeys(cache) == {cache[i].key : i \in 1..Len(cache)}
CacheGet(cache, key) ==
  LET i == CHOOSE j \in 1..Len(cache) : cache[j].key = key IN cache[i].buf

\* a cache that reports every key as missing
in_cache_never(cache, state_key) == FALSE

\* state_key in self._render_cache
in_cache(cache, state_key) == state_key \in CacheKeys(cache)

\* a cache that drops its newest entry when it is full
evict_newest(cache) == SubSeq(cache, 1, Len(cache) - 1)

\* self._render_cache.pop(next(iter(self._render_cache))): the first key of
\* the dict, which is the one inserted earliest
evict(cache) == Tail(cache)

\* a cache that counts as full only once it holds more than maxsize entries
cache_full_late(cache, maxsize) == Len(cache) > maxsize

\* len(self._render_cache) >= self._render_cache_maxsize
cache_full(cache, maxsize) == Len(cache) >= maxsize

\* maxsize given to cache_with_dict
CacheMax(id) == IF id \in Scenes THEN SceneCacheMax ELSE LeafCacheMax

\* ------------------------------------------------------- compute_state
RECURSIVE compute_state(_, _, _)
RECURSIVE render(_, _, _)

\* an inner loop that finds no animation for any child
targets_nothing(a, child) == FALSE

\* anim.target == child_id
targets(a, child) == acfg[a].target = child

\* an update that is given the clock of the scene for the elapsed time
elapsed_since_zero(scene_time, start_time) == scene_time

\* elapsed = max(0.0, scene_time - start_time)
elapsed_since(scene_time, start_time) == Max2(0, scene_time - start_time)

\* Scene.compute_state, the inner loop over self.current_animations for one
\* child: every animation whose target is the child is updated on the
\* child's bag with elapsed = max(0.0, scene_time - start_time)
RECURSIVE apply_animations(_, _, _, _)
apply_animations(h, s, child, pairs) ==
  IF pairs = << >> \/ h.err THEN h
  ELSE IF ~targets(Head(pairs)[2], child)
       THEN apply_animations(h, s, child, Tail(pairs))
  ELSE LET a == Head(pairs)[2]
           el == elapsed_since(h.stime[s], Head(pairs)[1])
       IN Bind(update(h.anim, a, h.bag[s][child], el), LAMBDA r :
            Bind([h EXCEPT !.anim = r.A, !.bag[s][child] = r.bag,
                    !.err = r.err,
                    !.log = Append(@, Ev("update", s, child, a, el,
                                         r.bag # h.bag[s][child]))],
                 LAMBDA h1 : apply_animations(h1, s, child, Tail(pairs))))

\* a per-child entry that leaves the child's own snapshot out
child_entry_bag_only(bg, child_component_state) == bg

\* Scene.compute_state, the entry of one child: a copy of its bag with the
\* key '_child_state' holding the child component's own hashed compute_state
child_entry(bg, child_component_state) ==
  Put(bg, "_child_state", make_hashable(child_component_state))

\* Scene.compute_state, the loop over self.children.items(); acc is
\* child_states
RECURSIVE child_states(_, _, _, _, _)
child_states(h, s, ids, t, acc) ==
  IF ids = << >> \/ h.err THEN [h |-> h, state |-> acc]
  ELSE LET child == Head(ids) IN
       Bind(apply_animations(h, s, child, h.cur[s]), LAMBDA h1 :
         IF h1.err THEN [h |-> h1, state |-> acc]
         ELSE Bind(compute_state(h1, child, t), LAMBDA r :
                Bind([c \in DOMAIN acc \cup {child} |->
                        IF c = child
                        THEN child_entry(h1.bag[s][child], r.state)
                        ELSE acc[c]],
                     LAMBDA acc1 : child_states(r.h, s, Tail(ids), t, acc1))))

\* compute_state(time) of a leaf (the attribute that decides its pixels)
\* and of a Scene; the result is the state dict
compute_state(h, id, t) ==
  IF id \in Leaves THEN [h |-> h, state |-> [value |-> h.value[id]]]
  ELSE Bind(child_states(h, id, h.children[id], t, [c \in {} |-> 0]),
         LAMBDA r : [h |-> r.h, state |-> [children |-> r.state]])

\* ------------------------------------------------------- _render_cached
\* Scene._render_cached: sorted() by z_index is stable, so the children are
\* taken by ascending z_index and, among equals, in dict order
ZIndex(entry) == Get(entry, "z_index")

RECURSIVE InsertByZ(_, _, _)
InsertByZ(sorted, cid, cs) ==
  IF sorted = << >> THEN << cid >>
  ELSE IF ZIndex(cs[Head(sorted)]) <= ZIndex(cs[cid])
       THEN << Head(sorted) >> \o InsertByZ(Tail(sorted), cid, cs)
       ELSE << cid >> \o sorted

RECURSIVE SortByZ(_, _, _)
SortByZ(ids, cs, sorted) ==
  IF ids = << >> THEN sorted
  ELSE SortByZ(Tail(ids), cs, InsertByZ(sorted, Head(ids), cs))

\* the loop that composites the children: each child renders itself and is
\* blitted at (x, y) with its opacity; px collects what was blitted
RECURSIVE composite(_, _, _, _, _, _)
composite(h, s, ids, cs, t, px) ==
  IF ids = << >> \/ h.err THEN [h |-> h, px |-> px]
  ELSE LET child == Head(ids) IN
       Bind(render(h, child, t), LAMBDA r :
         Bind(Append(px, [child |-> child, x |-> Get(cs[child], "x"),
                          y |-> Get(cs[child], "y"), buf |-> r.buf.px,
                          outline |-> r.buf.outline]),
              LAMBDA px1 : composite(r.h, s, Tail(ids), cs, t, px1)))

\* RenderBuffer.blit, one colour channel of one pixel: the source pixel with
\* alpha channel alpha (0..255) is blended over dst with the given opacity
\* (0 or 1 here) and the result is cut to an integer by astype(np.uint8)
Blend(dst, src, alpha, opacity) ==
  (dst * (255 - alpha * opacity) + src * alpha * opacity) \div 255

\* the body of _render_cached: a new RenderBuffer
render_body(h, id, state, t) ==
  LET n == h.comp[id].calls + 1
      h1 == [h EXCEPT !.comp[id].calls = n,
                      !.log = Append(@, Ev("body", id, "-", "-", t, FALSE))]
  IN IF id \in Leaves
     THEN [h |-> h1, buf |-> Buffer(id, n, << state.value >>)]
     ELSE LET cs == state.children IN
          Bind(SortByZ(h.children[id], cs, << >>), LAMBDA order :
            Bind(composite(h1, id, order, cs, t, << >>), LAMBDA r :
              [h |-> r.h, buf |-> Buffer(id, n, r.px)]))

\* cache_with_dict.wrapper: the key is the hashed state dict and nothing
\* else; on a miss the first key of the dict is popped when the cache is
\* full, then the body runs and its buffer is stored at the end
render_cached(h, id, state, t) ==
  LET cache == h.comp[id].cache
      state_key == make_hashable(state)
  IN IF in_cache(cache, state_key)
     THEN [h |-> [h EXCEPT !.log = Append(@, Ev("hit", id, "-", "-", t, FALSE))],
           buf |-> CacheGet(cache, state_key)]
     ELSE LET kept == IF cache_full(cache, CacheMax(id)) THEN evict(cache)
                      ELSE cache
              h1 == [h EXCEPT !.comp[id].cache = kept]
          IN Bind(render_body(h1, id, state, t), LAMBDA r :
               [h |-> [r.h EXCEPT !.comp[id].cache =
                         Append(@, [key |-> state_key, buf |-> r.buf])],
                buf |-> r.buf])

\* a render that takes every snapshot for a new one
state_changed_always(state, last_state) == TRUE

\* state != self._last_state; _last_state is None, << >>, before the first
\* render
state_changed(state, last_state) == << state >> # last_state

\* a debug render that draws on the buffer it was handed
buffer_alias(buf) == buf

\* buffer.copy(): a new RenderBuffer with the same content
buffer_copy(buf) == [buf EXCEPT !.copy = TRUE]

\* Component._apply_debug_render: the outline is drawn in place, on the
\* object it is given; when that object is the one a cache entry holds, the
\* entry shows the outline from then on
apply_debug_render(h, id, buf) ==
  [h |-> [h EXCEPT !.comp[id].cache =
            [i \in 1..Len(@) |->
               IF @[i].buf.obj = buf.obj /\ ~buf.copy
               THEN [@[i] EXCEPT !.buf.outline = TRUE]
               ELSE @[i]]],
   buf |-> [buf EXCEPT !.outline = TRUE]]

\* Component.render
render(h, id, t) ==
  Bind(compute_state([h EXCEPT !.log = Append(@, Ev("render", id, "-", "-",
                                                   t, FALSE))], id, t),
       LAMBDA cs :
    IF cs.h.err THEN [h |-> cs.h, buf |-> NoBuffer]
    ELSE
      Bind(IF h.debug
           THEN Put(cs.state, "_debug_focused", h.comp[id].focused)
           ELSE cs.state, LAMBDA state :
        Bind(IF state_changed(state, cs.h.comp[id].last_state)
             THEN [cs.h EXCEPT !.comp[id].rendered_at = t,
                               !.comp[id].last_state = << state >>]
             ELSE cs.h, LAMBDA h2 :
          Bind(render_cached(h2, id, state, t), LAMBDA r :
            IF h.debug /\ h.comp[id].focused
            THEN apply_debug_render(r.h, id, buffer_copy(r.buf))
            ELSE r))))

\* ------------------------------------------------------------- Scene
\* the animations registered for a phase name, << >> wrapped in a sequence;
\* << >> itself when the name is unknown
PhaseAnimations(h, s, ph) ==
  CASE ph = "entrance" -> << h.phases[s].entrance >>
    [] ph = "idle" -> << h.phases[s].idle >>
    [] ph = "exit" -> << h.phases[s].exit >>
    [] ph \in DOMAIN h.phases[s].custom -> << h.phases[s].custom[ph] >>
    [] OTHER -> << >>

\* a phase whose animations are scheduled at their bare offsets
start_time_unshifted(current_scene_time, offset) == offset

\* current_scene_time + start_time
start_time(current_scene_time, offset) == current_scene_time + offset

\* Scene._start_phase, the loop over the animations of the phase
RECURSIVE load_animations(_, _, _, _)
load_animations(h, s, pairs, T) ==
  IF pairs = << >> \/ h.err THEN h
  ELSE LET a == Head(pairs)[2]
           target == acfg[a].target
       IN Bind([h EXCEPT !.anim = reset(@, a),
                         !.cur[s] = Append(@, << start_time(T, Head(pairs)[1]),
                                                 a >>)], LAMBDA h1 :
            IF target \notin DOMAIN h1.bag[s]
            THEN load_animations(h1, s, Tail(pairs), T)
            ELSE Bind(update(h1.anim, a, h1.bag[s][target], 0), LAMBDA r :
                   Bind([h1 EXCEPT !.anim = r.A, !.bag[s][target] = r.bag,
                           !.err = r.err,
                           !.log = Append(@, Ev("update", s, target, a, 0,
                                                r.bag # h1.bag[s][target]))],
                        LAMBDA h2 : load_animations(h2, s, Tail(pairs), T))))

\* Scene._start_phase: the phase name is stored and the active list cleared
\* before the name is looked up
start_phase(h, s, ph, T) ==
  LET h1 == [h EXCEPT !.phase[s] = ph, !.cur[s] = << >>]
      found == PhaseAnimations(h, s, ph)
  IN IF found = << >> THEN h1
     ELSE load_animations(h1, s, found[1], T)

\* Scene.set_animation_phase
set_animation_phase(h, s, ph) ==
  IF ph = NoPhase THEN [h EXCEPT !.phase[s] = NoPhase, !.cur[s] = << >>]
  ELSE start_phase(h, s, ph, h.stime[s])

\* a completion test that does not wait for the animation that starts last
before_last_start_never(ca, scene_time) == FALSE

\* scene_time < max(start_time for start_time, _ in current_animations)
before_last_start(ca, scene_time) ==
  scene_time < MaxSeq([i \in 1..Len(ca) |-> ca[i][1]])

\* Scene._check_phase_complete
check_phase_complete(h, s, scene_time) ==
  LET ca == h.cur[s] IN
  IF ca = << >> THEN TRUE
  ELSE IF \E i \in 1..Len(ca) :
            scene_time >= ca[i][1] /\ ~h.anim[ca[i][2]].completed
       THEN FALSE
  ELSE IF before_last_start(ca, scene_time) THEN FALSE
  ELSE TRUE

\* Scene.add_child: the dict keeps the place of a key that is already there
add_child(h, s, id, state) ==
  [h EXCEPT !.children[s] = IF id \in DOMAIN h.bag[s] THEN @
                            ELSE Append(@, id),
            !.bag[s] = [c \in DOMAIN @ \cup {id} |->
                          IF c = id THEN state ELSE @[c]]]

\* Scene.remove_child
remove_child(h, s, id) ==
  IF id \notin DOMAIN h.bag[s] THEN h
  ELSE [h EXCEPT !.children[s] = SelectSeq(@, LAMBDA c : c # id),
                 !.bag[s] = [c \in DOMAIN @ \ {id} |-> @[c]]]

\* ------------------------------------------------------ Orchestrator
\* a driver that never enters the idle phase
phase_transitions_without_idle(h, s, scene_time) ==
  IF h.phase[s] = "entrance" /\ check_phase_complete(h, s, scene_time)
  THEN set_animation_phase(h, s, NoPhase)
  ELSE h

\* the phase transitions of Orchestrator._render_frame and of the loop of
\* Scene.start_async
phase_transitions(h, s, scene_time) ==
  IF h.phase[s] = "entrance" /\ check_phase_complete(h, s, scene_time)
  THEN IF h.phases[s].idle # << >>
       THEN set_animation_phase(h, s, "idle")
       ELSE set_animation_phase(h, s, NoPhase)
  ELSE IF h.phase[s] = "idle" /\ check_phase_complete(h, s, scene_time)
       THEN set_animation_phase(h, s, "idle")
  ELSE h

\* Orchestrator._render_frame for the current scene s at Orchestrator.time
render_frame(h, s, time) ==
  Bind(phase_transitions([h EXCEPT !.stime[s] = time], s, time), LAMBDA h2 :
    IF h2.err THEN [h |-> h2, buf |-> NoBuffer] ELSE render(h2, s, time))

\* ------------------------------------------------------ focus and hooks
\* The components given to a Layout: w1, w2 and w3 are TextComponents that
\* scroll, w4 is the TextComponent txt, whose text the application changes.
Widgets == {"w1", "w2", "w3", "w4"}
NoChild == "None"       \* _focused_child = None
NoSuchChild == "zz"     \* an id that was never added

\* is_focusable(): _needs_scroll for a TextComponent
is_focusable(w) == IF w = "w4" THEN txt.needs_scroll ELSE w \in {"w1", "w2", "w3"}

\* the hooks of one component that a call has triggered, in order
Hook(kind, w) == Ev(kind, w, "-", "-", 0, FALSE)

\* a set_focus that triggers its hooks whatever the flag was
set_focus_always(fs, w, focused) ==
  [fs EXCEPT !.widget[w].focused = focused,
             !.log = Append(@, Hook(IF focused THEN "focus_gain"
                                    ELSE "focus_lost", w))]

\* Component.set_focus
set_focus(fs, w, focused) ==
  IF focused = fs.widget[w].focused THEN fs
  ELSE [fs EXCEPT !.widget[w].focused = focused,
                  !.log = Append(@, Hook(IF focused THEN "focus_gain"
                                         ELSE "focus_lost", w))]

\* Component._trigger_mount
trigger_mount(fs, w) ==
  IF fs.widget[w].mounted THEN fs
  ELSE [fs EXCEPT !.widget[w].mounted = TRUE,
                  !.log = Append(@, Hook("mount", w))]

\* Component._trigger_unmount
trigger_unmount(fs, w) ==
  IF ~fs.widget[w].mounted THEN fs
  ELSE [fs EXCEPT !.widget[w].mounted = FALSE,
                  !.log = Append(@, Hook("unmount", w))]

\* the ids of a list
Ids(list) == {list[i] : i \in 1..Len(list)}

\* list.index(id), counted from 0; used on a list that holds id
IndexOf(list, id) == (CHOOSE i \in 1..Len(list) :
                        list[i] = id /\ \A j \in 1..(i - 1) : list[j] # id) - 1

\* Layout.set_focused_component
set_focused_component(fs, child_id) ==
  IF child_id \notin Ids(fs.lay.children) THEN fs
  ELSE IF ~is_focusable(child_id) THEN fs
  ELSE Bind(IF fs.lay.focused_child # NoChild
            THEN set_focus(fs, fs.lay.focused_child, FALSE) ELSE fs,
            LAMBDA f1 :
              set_focus([f1 EXCEPT !.lay.focused_child = child_id],
                        child_id, TRUE))

\* Layout.add of VStack, HStack, Grid and ZStack
Layout_add(fs, child_id) ==
  Bind([fs EXCEPT !.lay.children = Append(@, child_id)], LAMBDA f1 :
    IF ~is_focusable(child_id) THEN f1
    ELSE Bind([f1 EXCEPT !.lay.focusable = Append(@, child_id)], LAMBDA f2 :
           IF f2.lay.focused_child = NoChild
           THEN set_focused_component(f2, child_id) ELSE f2))

\* a focus_next that stops at the last child
next_idx_no_wrap(current_idx, len) ==
  IF current_idx + 1 < len THEN current_idx + 1 ELSE current_idx

\* (current_idx + 1) % len(self._focusable_children)
next_idx(current_idx, len) == (current_idx + 1) % len

\* (current_idx - 1) % len(self._focusable_children)
prev_idx(current_idx, len) == (current_idx - 1) % len

\* Layout.focus_next
focus_next(fs) ==
  LET f == fs.lay.focusable IN
  IF f = << >> THEN fs
  ELSE IF fs.lay.focused_child = NoChild THEN set_focused_component(fs, f[1])
  ELSE IF fs.lay.focused_child \notin Ids(f)
       THEN set_focused_component(fs, f[1])
  ELSE set_focused_component(
         fs, f[next_idx(IndexOf(f, fs.lay.focused_child), Len(f)) + 1])

\* Layout.focus_previous
focus_previous(fs) ==
  LET f == fs.lay.focusable IN
  IF f = << >> THEN fs
  ELSE IF fs.lay.focused_child = NoChild
       THEN set_focused_component(fs, f[Len(f)])
  ELSE IF fs.lay.focused_child \notin Ids(f)
       THEN set_focused_component(fs, f[Len(f)])
  ELSE set_focused_component(
         fs, f[prev_idx(IndexOf(f, fs.lay.focused_child), Len(f)) + 1])

\* ------------------------------------------------------ scrolling
Min2(a, b) == IF a <= b THEN a ELSE b

\* max_width=None / max_height=None of TextComponent and TableComponent
NoMax == -1

\* Scrollbar.__init__ stores its arguments as given
Scrollbar(viewport_size, content_size, scroll_position) ==
  [viewport_size |-> viewport_size, content_size |-> content_size,
   scroll_position |-> scroll_position]

\* max(0, min(position, max_scroll)), the expression of every scroll setter
clamp_scroll_upper(position, max_scroll) == Min2(position, max_scroll)
clamp_scroll(position, max_scroll) == Max2(0, Min2(position, max_scroll))

\* Scrollbar.set_scroll_position(position)
set_scroll_position(b, position) ==
  LET max_scroll == Max2(0, b.content_size - b.viewport_size)
  IN [b EXCEPT !.scroll_position = clamp_scroll(position, max_scroll)]

\* Scrollbar.set_content_size(size)
set_content_size(b, size) ==
  set_scroll_position([b EXCEPT !.content_size = size], b.scroll_position)

\* the scroll test and the width TextComponent derives from its text
text_needs_scroll(autoscroll, max_width, text_width, padding) ==
  autoscroll = "X" /\ max_width # NoMax /\ text_width + 2 * padding > max_width

text_own_width(max_width, text_width, padding) ==
  IF max_width # NoMax THEN max_width ELSE text_width + 2 * padding

\* TextComponent.__init__, with the width of the rendered text for the text
TextComponent(text_width, padding, max_width, autoscroll) ==
  [needs_scroll |-> text_needs_scroll(autoscroll, max_width, text_width, padding),
   text_width |-> text_width,
   width |-> text_own_width(max_width, text_width, padding),
   padding |-> padding, scroll_offset_x |-> 0, autoscroll_enabled |-> TRUE,
   max_width |-> max_width, autoscroll |-> autoscroll]

\* TextComponent.scroll_to(x)
text_scroll_to(c, x) ==
  IF ~c.needs_scroll THEN c
  ELSE LET available_width == c.width - 2 * c.padding
           max_scroll == Max2(0, c.text_width - available_width)
       IN [c EXCEPT !.scroll_offset_x = clamp_scroll(x, max_scroll),
                    !.autoscroll_enabled = FALSE]

\* TextComponent.scroll_by(dx)
text_scroll_by(c, dx) ==
  IF ~c.needs_scroll THEN c ELSE text_scroll_to(c, c.scroll_offset_x + dx)

\* TextComponent.set_text(text, preserve_scroll)
set_text(c, text_width, preserve_scroll) ==
  LET old_scroll == IF preserve_scroll THEN c.scroll_offset_x ELSE 0
      needs == text_needs_scroll(c.autoscroll, c.max_width, text_width, c.padding)
      width == text_own_width(c.max_width, text_width, c.padding)
      max_scroll == Max2(0, text_width - (width - 2 * c.padding))
  IN [c EXCEPT !.text_width = text_width, !.needs_scroll = needs,
               !.width = width,
               !.scroll_offset_x = IF preserve_scroll /\ needs
                                   THEN Min2(old_scroll, max_scroll) ELSE 0]

\* min(full, max) if max else full: None and 0 both leave the full size
display_size(full, max) ==
  IF max # NoMax /\ max # 0 THEN Min2(full, max) ELSE full

\* TableComponent.__init__, with the size of the laid out cells for the data
TableComponent(full_width, full_height, max_width, max_height) ==
  [full_width |-> full_width, display_width |-> display_size(full_width, max_width),
   full_height |-> full_height,
   display_height |-> display_size(full_height, max_height),
   scroll_offset_x |-> 0, scroll_offset_y |-> 0]

\* TableComponent.scroll_to(x, y)
table_scroll_to(c, x, y) ==
  LET max_scroll_x == Max2(0, c.full_width - c.display_width)
      max_scroll_y == Max2(0, c.full_height - c.display_height)
  IN [c EXCEPT !.scroll_offset_x = clamp_scroll(x, max_scroll_x),
               !.scroll_offset_y = clamp_scroll(y, max_scroll_y)]

\* TableComponent.scroll_by(dx, dy)
table_scroll_by(c, dx, dy) ==
  table_scroll_to(c, c.scroll_offset_x + dx, c.scroll_offset_y + dy)

\* ------------------------------------------------------ initial state
\* a pair of an animation phase: (start offset, animation object)
At(offset, a) == << offset, a >>

\* Component.__init__, with no cache yet and no body run
ComponentInit ==
  [rendered_at |-> 0, last_state |-> << >>, focused |-> FALSE,
   mounted |-> FALSE, cache |-> << >>, calls |-> 0]

\* the phases given to the constructor of R and registered on it
RootEntrances == { << >>, << At(0, "e1") >>, << At(0, "e1"), At(1, "e2") >> }
RootIdles == { << >>, << At(0, "i1") >> }

\* the bag of add_child(id, component, position=(x, 0))
Position(x) == [p \in Params |-> IF p = "x" THEN x ELSE 0]

\* The scenes as set up before the clock starts: N holds the leaf c and has
\* a Sequence as entrance; R holds rootChildren, its entrance and idle phases
\* are one of the given combinations, and its custom phase 'shake' is
\* registered.
ObjectsInit(entrances, idles, rootChildren) ==
  /\ comp = [id \in Comps |-> ComponentInit]
  /\ value = [l \in Leaves |-> 1]
  /\ children = [s \in Scenes |-> IF s = "R" THEN rootChildren ELSE << "c" >>]
  /\ bag = [s \in Scenes |->
              IF s = "R"
              THEN [c \in {rootChildren[i] : i \in 1..Len(rootChildren)} |->
                      Position(0)]
              ELSE [c \in {"c"} |-> Position(0)]]
  /\ cur = [s \in Scenes |-> << >>]
  /\ phase = [s \in Scenes |-> NoPhase]
  /\ stime = [s \in Scenes |-> 0]
  /\ \E en \in entrances, id \in idles :
       phases = [s \in Scenes |->
                   IF s = "R"
                   THEN [entrance |-> en, idle |-> id,
                         exit |-> << At(0, "x1") >>,
                         custom |-> [n \in {"shake"} |-> << At(0, "k1") >>]]
                   ELSE [entrance |-> << At(0, "s1") >>, idle |-> << >>,
                         exit |-> << >>, custom |-> [n \in {} |-> << >>]]]
  /\ anim = [a \in AnimIds |-> AnimInit]
  /\ debug = FALSE
  /\ otime = 0
  /\ current_scene = NoPhase
  /\ ret = NoBuffer
  /\ log = << >>
  /\ nops = 0
  /\ pbag = Position(0)
  /\ ares = [ret |-> FALSE, err |-> FALSE]
  /\ running = FALSE /\ pc = "new" /\ now = 0 /\ t0 = 0 /\ duration = 0
  /\ stopped = "no" /\ display = NoBuffer
  /\ wpc = "off" /\ wphase = NoPhase /\ wstart = 0 /\ wtimeout = 0
  /\ wseen = FALSE
  /\ th = [pc |-> "idle", ph |-> NoPhase, T |-> 0, i |-> 0]
  /\ tk = [pc |-> "idle", ph |-> NoPhase, t |-> 0]
  /\ terr = FALSE /\ torn = FALSE
  /\ widget = [w \in Widgets |-> ComponentInit]
  /\ lay = [children |-> << >>, focusable |-> << >>, focused_child |-> NoChild]

\* Scrollbar(w, h), a TextComponent that does not scroll and a
\* TableComponent that shows all of its cells
ScrollDefaults ==
  /\ sb = Scrollbar(100, 200, 0)
  /\ txt = TextComponent(0, 0, NoMax, "NONE")
  /\ tbl = TableComponent(0, 0, NoMax, NoMax)

\* the same with the animation objects constructed as the fixtures say
SceneInit(entrances, idles, rootChildren) ==
  /\ ObjectsInit(entrances, idles, rootChildren)
  /\ ScrollDefaults
  /\ acfg = AnimCfg

Init ==
  /\ SceneInit(RootEntrances, RootIdles, << >>)
  /\ last = [op |-> "init", who |-> "-", t |-> 0, arg |-> "-"]

\* the objects after a call
Commit(h) ==
  /\ comp' = h.comp /\ value' = h.value /\ children' = h.children
  /\ bag' = h.bag /\ cur' = h.cur /\ phase' = h.phase /\ stime' = h.stime
  /\ phases' = h.phases /\ anim' = h.anim /\ log' = h.log

WithinCalls(h) == \A id \in Comps : h.comp[id].calls <= MaxCalls

\* the values of a bag stay within the bound
BagInRange(bg) == \A p \in DOMAIN bg : bg[p] \in -MaxVal..MaxVal
InRange(h) ==
  \A s \in Scenes : \A c \in DOMAIN h.bag[s] : BagInRange(h.bag[s][c])

Op(op, who, t, arg) == [op |-> op, who |-> who, t |-> t, arg |-> arg]

\* ------------------------------------------------------------- actions
\* component.render(t), called directly on any component
Render(id, t) ==
  \E r \in {render(Heap, id, t)} :
  /\ ~r.h.err /\ WithinCalls(r.h) /\ InRange(r.h)
  /\ Commit(r.h)
  /\ ret' = r.buf
  /\ last' = Op("render", id, t, "-")
  /\ UNCHANGED << loopvars, acfg, debug, otime, current_scene, nops, pbag, ares >>

\* the configuration of a leaf changes (comp.value = v)
SetValue(id, v) ==
  /\ value[id] # v
  /\ value' = [value EXCEPT ![id] = v]
  /\ log' = << >>
  /\ last' = Op("set_value", id, last.t, "-")
  /\ UNCHANGED << loopvars, acfg, comp, children, bag, cur, phase, stime, phases, anim,
                  debug, otime, current_scene, ret, pbag, ares >>
  /\ nops' = nops + 1

\* scene.children[id].state[p] = v, written from outside the scene
SetBag(s, id, p, v) ==
  /\ id \in DOMAIN bag[s]
  /\ Get(bag[s][id], p) # v
  /\ bag' = [bag EXCEPT ![s][id] = Put(@, p, v)]
  /\ log' = << >>
  /\ last' = Op("set_bag", s, last.t, id)
  /\ UNCHANGED << loopvars, acfg, comp, value, children, cur, phase, stime, phases, anim,
                  debug, otime, current_scene, ret, pbag, ares >>
  /\ nops' = nops + 1

\* Component.set_focus
SetFocus(id, focused) ==
  /\ comp[id].focused # focused
  /\ comp' = [comp EXCEPT ![id].focused = focused]
  /\ log' = << >>
  /\ last' = Op("set_focus", id, last.t, "-")
  /\ UNCHANGED << loopvars, acfg, value, children, bag, cur, phase, stime, phases, anim,
                  debug, otime, current_scene, ret, pbag, ares >>
  /\ nops' = nops + 1

\* Component.DEBUG_RENDER = b
SetDebug(b) ==
  /\ debug # b
  /\ debug' = b
  /\ log' = << >>
  /\ last' = Op("set_debug", "-", last.t, "-")
  /\ UNCHANGED << loopvars, acfg, comp, value, children, bag, cur, phase, stime, phases,
                  anim, otime, current_scene, ret, pbag, ares >>
  /\ nops' = nops + 1

\* scene.add_child(id, component, position=(x, 0))
AddChild(s, id, x) ==
  /\ id \notin DOMAIN bag[s]
  /\ \E h \in {add_child(Heap, s, id, Position(x))} : Commit(h)
  /\ last' = Op("add_child", s, last.t, id)
  /\ UNCHANGED << loopvars, acfg, debug, otime, current_scene, ret, pbag, ares >>
  /\ nops' = nops + 1

\* scene.reset(), as the driver of examples/bars.py calls it before
\* on_enter: neither Scene nor Component defines reset, the attribute lookup
\* raises AttributeError and no field is changed
Scene_reset(h, s) == [h EXCEPT !.err = TRUE]

SceneReset(s) ==
  /\ \E h \in {Scene_reset(Heap, s)} :
       /\ Commit(h)
       /\ ares' = [ret |-> FALSE, err |-> h.err]
  /\ last' = Op("reset", s, last.t, "-")
  /\ UNCHANGED << loopvars, acfg, debug, otime, current_scene, ret, pbag >>
  /\ nops' = nops + 1

\* scene.remove_child(id)
RemoveChild(s, id) ==
  /\ id \in DOMAIN bag[s]
  /\ \E h \in {remove_child(Heap, s, id)} : Commit(h)
  /\ last' = Op("remove_child", s, last.t, id)
  /\ UNCHANGED << loopvars, acfg, debug, otime, current_scene, ret, pbag, ares >>
  /\ nops' = nops + 1

\* scene.set_animation_phase(ph)
SetAnimationPhase(s, ph) ==
  \E h \in {set_animation_phase(Heap, s, ph)} :
  /\ ~h.err /\ InRange(h)
  /\ Commit(h)
  /\ last' = Op("set_animation_phase", s, last.t, ph)
  /\ UNCHANGED << loopvars, acfg, debug, otime, current_scene, ret, pbag, ares >>
  /\ nops' = nops + 1

\* Orchestrator.transition_to(s): on_exit of the current scene, then
\* on_enter of the new one
TransitionTo(s) ==
  \E h1 \in {IF current_scene = NoPhase THEN Heap
              ELSE set_animation_phase(Heap, current_scene, "exit")} :
  \E h2 \in {set_animation_phase(h1, s, "entrance")} :
     /\ ~h2.err /\ InRange(h2)
     /\ Commit(h2)
     /\ current_scene' = s
     /\ last' = Op("transition_to", s, last.t, "-")
     /\ UNCHANGED << loopvars, acfg, debug, otime, ret, pbag, ares >>
     /\ nops' = nops + 1

\* Orchestrator.render_single_frame(t), and one turn of the loop of
\* start_async at clock value t
RenderSingleFrame(t) ==
  \E r \in {IF current_scene = NoPhase THEN [h |-> Heap, buf |-> NoBuffer]
             ELSE render_frame(Heap, current_scene, t)} :
     /\ ~r.h.err /\ WithinCalls(r.h) /\ InRange(r.h)
     /\ Commit(r.h)
     /\ otime' = t
     /\ ret' = r.buf
     /\ last' = Op("frame", current_scene, t, "-")
     /\ UNCHANGED << loopvars, acfg, debug, current_scene, nops, pbag, ares >>

\* scene._time = t, assigned by a hand-written driver (examples/bars.py)
\* or a test
SetSceneTime(s, t) ==
  /\ stime[s] # t
  /\ stime' = [stime EXCEPT ![s] = t]
  /\ log' = << >>
  /\ last' = Op("set_time", s, last.t, "-")
  /\ UNCHANGED << loopvars, acfg, comp, value, children, bag, cur, phase, phases, anim,
                  debug, otime, current_scene, ret, pbag, ares >>
  /\ nops' = nops + 1

\* The scene R is registered with the orchestrator and driven by it; the
\* leaf a is added to it and removed from it while it runs.
Next ==
  \/ \E t \in otime..MaxTime : RenderSingleFrame(t)
  \/ /\ nops < MaxOps
     /\ \/ TransitionTo("R")
        \/ \E ph \in {NoPhase, "entrance", "idle", "exit", "shake", Unknown} :
             SetAnimationPhase("R", ph)
        \/ AddChild("R", "a", 1)
        \/ RemoveChild("R", "a")
        \/ SceneReset("R")

Spec == Init /\ [][Next]_vars

\* ------------------------------------------- animations updated directly
\* One animation object is constructed (last.who names it) and its update
\* and reset are called directly on the property bag pbag, as a test or
\* Scene.compute_state does.
InitAnim ==
  /\ SceneInit({ << >> }, { << >> }, << >>)
  /\ \E a \in AnimIds : last = Op("construct", a, 0, "-")

DirectUpdate(elapsed) ==
  \E r \in {update(anim, last.who, pbag, elapsed)} :
  /\ BagInRange(r.bag)
  /\ anim' = r.A
  /\ pbag' = r.bag
  /\ ares' = [ret |-> r.ret, err |-> r.err]
  /\ last' = Op("update", last.who, elapsed, "-")
  /\ UNCHANGED << loopvars, acfg, comp, value, children, bag, cur, phase, stime, phases, nops,
                  debug, otime, current_scene, ret, log >>

DirectReset ==
  /\ anim' = reset(anim, last.who)
  /\ ares' = [ret |-> FALSE, err |-> FALSE]
  /\ last' = Op("reset", last.who, 0, "-")
  /\ UNCHANGED << loopvars, acfg, comp, value, children, bag, cur, phase, stime, phases, nops,
                  debug, otime, current_scene, ret, log, pbag >>

SetPbag(p, v) ==
  /\ Get(pbag, p) # v
  /\ pbag' = Put(pbag, p, v)
  /\ last' = Op("set", last.who, 0, "-")
  /\ UNCHANGED << loopvars, acfg, comp, value, children, bag, cur, phase, stime, phases, nops,
                  anim, debug, otime, current_scene, ret, log, ares >>

NextAnim ==
  \/ \E elapsed \in 0..MaxElapsed : DirectUpdate(elapsed)
  \/ DirectReset
  \/ \E p \in Params, v \in -1..1 : SetPbag(p, v)

SpecAnim == InitAnim /\ [][NextAnim]_vars

\* ------------------------------------------- one Animate from A to B
\* Animate("a", from_params_int={'x': A}, to_params_int={'x': B},
\* duration=D) with linear easing, for every A and B of the value range and
\* every duration up to MaxElapsed; it is updated and reset directly.
Lerp == "e1"

InitLerp ==
  /\ ObjectsInit({ << >> }, { << >> }, << >>)
  /\ ScrollDefaults
  /\ \E A \in -MaxVal..MaxVal, B \in -MaxVal..MaxVal, D \in 1..MaxElapsed :
       acfg = [AnimCfg EXCEPT ![Lerp] =
                 Animate("a", P1("x", A), NoParams, P1("x", B), NoParams,
                         D, "linear")]
  /\ last = Op("construct", Lerp, 0, "-")

SpecLerp == InitLerp /\ [][NextAnim]_vars

\* ------------------------------------------------------ parameter resolution
\* an Animate constructed with any subset of its eight parameter
\* dictionaries, each naming the one parameter x; the values tell the
\* dictionaries apart
Given(present, v) == IF present THEN P1("x", v) ELSE NoParams

InitResolve ==
  /\ ObjectsInit({ << >> }, { << >> }, << >>)
  /\ ScrollDefaults
  /\ \E ti \in BOOLEAN, tri \in BOOLEAN, t \in BOOLEAN, tr \in BOOLEAN,
        fi \in BOOLEAN, fri \in BOOLEAN, f \in BOOLEAN, fr \in BOOLEAN :
       acfg = [AnimCfg EXCEPT ![Lerp] =
                 [AnimDefaults EXCEPT
                    !.to_params_int = Given(ti, 10),
                    !.to_params_rel_int = Given(tri, 20),
                    !.to_params = Given(t, 30),
                    !.to_params_rel = Given(tr, 40),
                    !.from_params_int = Given(fi, 100),
                    !.from_params_rel_int = Given(fri, 200),
                    !.from_params = Given(f, 300),
                    !.from_params_rel = Given(fr, 400)]]
  /\ last = Op("construct", Lerp, 0, "-")

\* anim._resolve_params(state) on the bag of the application
ResolveParams ==
  /\ anim' = [anim EXCEPT ![Lerp] = resolve_params(anim[Lerp], acfg[Lerp], pbag)]
  /\ last' = Op("resolve", Lerp, 0, anim[Lerp].resolved)
  /\ UNCHANGED << loopvars, acfg, comp, value, children, bag, cur, phase,
                  stime, phases, nops, debug, otime, current_scene, ret, log,
                  pbag, ares >>

\* the application goes on with a new, empty dictionary
NewPbag ==
  /\ pbag # NoParams
  /\ pbag' = NoParams
  /\ last' = Op("set", last.who, 0, "-")
  /\ UNCHANGED << loopvars, acfg, comp, value, children, bag, cur, phase,
                  stime, phases, nops, anim, debug, otime, current_scene, ret,
                  log, ares >>

NextResolve ==
  \/ ResolveParams
  \/ DirectReset
  \/ NewPbag
  \/ \E v \in -1..1 : SetPbag("x", v)

SpecResolve == InitResolve /\ [][NextResolve]_vars

\* ------------------------------------------------ rendering and caching
\* A leaf is rendered directly at times that never decrease, between changes
\* of its configuration, of its focus and of DEBUG_RENDER.
InitCache ==
  /\ SceneInit({ << >> }, { << >> }, << "a" >>)
  /\ last = Op("init", "-", 0, "-")

NextCache ==
  \/ \E t \in last.t..MaxTime : Render("a", t)
  \/ /\ nops < MaxEdits
     /\ \/ \E v \in Values : SetValue("a", v)
        \/ \E b \in BOOLEAN : SetFocus("a", b)
        \/ \E b \in BOOLEAN : SetDebug(b)

SpecCache == InitCache /\ [][NextCache]_vars

\* ------------------------------------------------------ debug rendering
\* the scene R with the leaf a is rendered while the application moves the
\* focus to and from the leaf and switches DEBUG_RENDER
InitDebug ==
  /\ SceneInit({ << >> }, { << >> }, << "a" >>)
  /\ last = Op("init", "-", 0, "-")

NextDebug ==
  \/ \E t \in last.t..MaxTime : Render("R", t)
  \/ /\ nops < MaxEdits
     /\ \/ \E v \in Values : SetValue("a", v)
        \/ \E b \in BOOLEAN : SetFocus("a", b)
        \/ \E b \in BOOLEAN : SetDebug(b)

SpecDebug == InitDebug /\ [][NextDebug]_vars

\* ------------------------------------------- the render loop of a scene
\* a loop that goes on whatever the flag says
loop_continues_always(flag) == TRUE

\* while self._running
loop_continues(flag) == flag

\* Scene.await_phase_complete (wait_one_cycle=False), one pass of its loop
\* at time.time() = time: "true" and "false" are what it returns, "waiting"
\* is the await asyncio.sleep(poll_interval) before the next pass
poll(h, s, ph, start_wait, timeout, time) ==
  LET timed_out == timeout # 0 /\ time - start_wait >= timeout IN
  IF ph # NoPhase /\ h.phase[s] # ph
  THEN IF timed_out THEN "false" ELSE "waiting"
  ELSE IF check_phase_complete(h, s, h.stime[s]) THEN "true"
  ELSE IF timed_out THEN "false" ELSE "waiting"

\* the scene is in the phase the coroutine waits for and the completion
\* test holds
AwaitedComplete(h, s, ph) ==
  /\ ph = NoPhase \/ h.phase[s] = ph
  /\ check_phase_complete(h, s, h.stime[s])

SceneVars == << comp, value, children, bag, cur, phase, stime, phases, anim,
               log >>
Others == << acfg, debug, otime, current_scene, nops, pbag, ares, threadvars,
            widgetvars >>

\* start_async up to the loop: the flag is set, _time is 0 and on_enter()
\* starts the entrance phase
LoopStart(d) ==
  /\ pc = "new"
  /\ \E h \in {set_animation_phase([Heap EXCEPT !.stime["R"] = 0], "R",
                                    "entrance")} : Commit(h)
  /\ running' = TRUE /\ t0' = now /\ duration' = d /\ pc' = "test"
  /\ last' = Op("start_async", "R", 0, "-")
  /\ UNCHANGED << Others, ret, now, stopped, display, wpc, wphase, wstart,
                  wtimeout, wseen >>

\* while self._running: the flag is read; the finally clause clears it when
\* the loop is left
LoopTest ==
  /\ pc = "test"
  /\ IF loop_continues(running)
     THEN pc' = "render" /\ running' = running
     ELSE pc' = "done" /\ running' = FALSE
  /\ UNCHANGED << SceneVars, Others, ret, last, now, t0, duration, stopped,
                  display, wpc, wphase, wstart, wtimeout, wseen >>

\* the frame: _time is taken from the clock, the phase transitions are
\* made and the scene is rendered
LoopRender ==
  /\ pc = "render"
  /\ \E r \in {render_frame(Heap, "R", now - t0)} :
       /\ ~r.h.err /\ WithinCalls(r.h) /\ InRange(r.h)
       /\ Commit(r.h)
       /\ ret' = r.buf
       /\ wseen' = (wseen \/ (/\ wpc = "waiting"
                                /\ (wtimeout = 0 \/ now - wstart < wtimeout)
                                /\ AwaitedComplete(r.h, "R", wphase)))
  /\ pc' = "callback"
  /\ last' = Op("tick", "R", now - t0, "-")
  /\ UNCHANGED << Others, running, now, t0, duration, stopped, display, wpc,
                  wphase, wstart, wtimeout >>

\* self._display_callback(buffer)
LoopCallback ==
  /\ pc = "callback"
  /\ display' = ret
  /\ pc' = "after"
  /\ UNCHANGED << SceneVars, Others, ret, last, running, now, t0, duration,
                  stopped, wpc, wphase, wstart, wtimeout, wseen >>

\* if duration and self._time >= duration: break; otherwise the coroutine
\* sleeps when the frame took less than 1/fps and goes on at once when it
\* took longer
LoopAfter ==
  /\ pc = "after"
  /\ IF duration # 0 /\ stime["R"] >= duration
     THEN pc' = "done" /\ running' = FALSE
     ELSE pc' \in {"sleep", "test"} /\ running' = running
  /\ UNCHANGED << SceneVars, Others, ret, last, now, t0, duration, stopped,
                  display, wpc, wphase, wstart, wtimeout, wseen >>

\* the sleep is over
LoopWake ==
  /\ pc = "sleep"
  /\ pc' = "test"
  /\ UNCHANGED << SceneVars, Others, ret, last, running, now, t0, duration,
                  stopped, display, wpc, wphase, wstart, wtimeout, wseen >>

\* the task is cancelled while it sleeps: CancelledError is caught and the
\* finally clause clears the flag
LoopCancel ==
  /\ pc = "sleep"
  /\ pc' = "done" /\ running' = FALSE
  /\ UNCHANGED << SceneVars, Others, ret, last, now, t0, duration, stopped,
                  display, wpc, wphase, wstart, wtimeout, wseen >>

\* Scene.stop(), called on the running loop by another thread while the frame
\* is rendered, by the display callback, or by another coroutine while the
\* loop sleeps
Stop ==
  /\ pc \in {"render", "callback", "sleep"} /\ running
  /\ running' = FALSE
  /\ stopped' = IF stopped = "no" THEN pc ELSE stopped
  /\ UNCHANGED << SceneVars, Others, ret, last, pc, now, t0, duration,
                  display, wpc, wphase, wstart, wtimeout, wseen >>

\* the clock advances
Tick ==
  /\ now < MaxTime
  /\ now' = now + 1
  /\ UNCHANGED << SceneVars, Others, ret, last, running, pc, t0, duration,
                  stopped, display, wpc, wphase, wstart, wtimeout, wseen >>

\* await_phase_complete(ph, timeout) is called while the loop coroutine is
\* suspended; its first pass is made at once
AwaitStart(ph, timeout) ==
  /\ wpc = "off" /\ pc = "sleep"
  /\ wphase' = ph /\ wtimeout' = timeout /\ wstart' = now
  /\ wpc' = poll(Heap, "R", ph, now, timeout, now)
  /\ wseen' = AwaitedComplete(Heap, "R", ph)
  /\ UNCHANGED << SceneVars, Others, ret, last, running, pc, now, t0,
                  duration, stopped, display >>

\* a later pass of await_phase_complete that returns
AwaitPoll ==
  /\ wpc = "waiting" /\ pc \in {"sleep", "done"}
  /\ poll(Heap, "R", wphase, wstart, wtimeout, now) # "waiting"
  /\ wpc' = poll(Heap, "R", wphase, wstart, wtimeout, now)
  /\ UNCHANGED << SceneVars, Others, ret, last, running, pc, now, t0,
                  duration, stopped, display, wphase, wstart, wtimeout, wseen >>

\* R holds the leaf a, its entrance animation takes two time units and it
\* has an idle phase or none.
InitLoop ==
  /\ SceneInit({ << At(0, "e1") >> }, RootIdles, << "a" >>)
  /\ last = Op("init", "-", 0, "-")

NextLoop ==
  \/ \E d \in {0, MaxTime} : LoopStart(d)
  \/ LoopTest
  \/ LoopRender
  \/ LoopCallback
  \/ LoopAfter
  \/ LoopWake
  \/ LoopCancel
  \/ Stop
  \/ Tick
  \/ \E ph \in {NoPhase, "entrance", "idle"}, timeout \in 0..MaxTime :
       AwaitStart(ph, timeout)
  \/ AwaitPoll

SpecLoop == InitLoop /\ [][NextLoop]_vars

\* ------------------------------ set_animation_phase from another thread
\* Scene has no lock: the steps of set_animation_phase and _start_phase in
\* one thread and the steps of a tick in the other are interleaved as the
\* interpreter schedules them.
LoopOnly == << running, pc, now, t0, duration, stopped, display, wpc, wphase,
               wstart, wtimeout, wseen >>

\* the list of the phase the other thread is loading
Loading == PhaseAnimations(Heap, "R", th.ph)[1]

\* set_animation_phase(ph) up to the assignment of _current_phase (for None
\* in set_animation_phase itself, otherwise in _start_phase)
ThCall(ph) ==
  /\ th.pc = "idle"
  /\ Commit([Heap EXCEPT !.phase["R"] = ph])
  /\ th' = [pc |-> "named", ph |-> ph, T |-> stime["R"], i |-> 0]
  /\ last' = Op("set_animation_phase", "R", last.t, ph)
  /\ nops' = nops + 1
  /\ UNCHANGED << LoopOnly, widgetvars, acfg, debug, otime, current_scene, ret, pbag, ares,
                  tk, terr, torn >>

\* self.clear_animations(), and the lookup of the phase name
ThClear ==
  /\ th.pc = "named"
  /\ Commit([Heap EXCEPT !.cur["R"] = << >>])
  /\ th' = [th EXCEPT !.pc = IF \/ th.ph = NoPhase
                                \/ PhaseAnimations(Heap, "R", th.ph) = << >>
                                \/ Loading = << >>
                             THEN "idle" ELSE "load"]
  /\ UNCHANGED << LoopOnly, widgetvars, acfg, debug, otime, current_scene, ret, pbag, ares,
                  last, nops, tk, terr, torn >>

\* one turn of the loop of _start_phase: reset, add_animation, update at 0
ThLoad ==
  /\ th.pc = "load"
  /\ \E h \in {load_animations(Heap, "R", << Loading[th.i + 1] >>, th.T)} :
       /\ ~h.err /\ InRange(h)
       /\ Commit(h)
  /\ th' = [th EXCEPT !.i = @ + 1,
                      !.pc = IF th.i + 1 = Len(Loading) THEN "idle" ELSE "load"]
  /\ UNCHANGED << LoopOnly, widgetvars, acfg, debug, otime, current_scene, ret, pbag, ares,
                  last, nops, tk, terr, torn >>

\* where the tick goes when _check_phase_complete is entered: its first
\* statement returns True for an empty list
Entered == IF cur["R"] = << >> THEN "transition" ELSE "loop"

\* where the tick goes when _check_phase_complete returns False: the first
\* condition is followed by the elif, the second by the rendering
Refused == IF tk.ph = "entrance" THEN "elif" ELSE "render"

\* the tick starts at scene time t: _time is assigned and the first
\* condition reads _current_phase
TkStart(t) ==
  /\ tk.pc = "idle"
  /\ Commit([Heap EXCEPT !.stime["R"] = t])
  /\ tk' = IF phase["R"] = "entrance"
           THEN [pc |-> Entered, ph |-> "entrance", t |-> t]
           ELSE [pc |-> "elif", ph |-> NoPhase, t |-> t]
  /\ UNCHANGED << LoopOnly, widgetvars, acfg, debug, otime, current_scene, ret, pbag, ares,
                  last, nops, th, terr, torn >>

\* elif self._current_phase == 'idle' and ...
TkElif ==
  /\ tk.pc = "elif"
  /\ tk' = IF phase["R"] = "idle"
           THEN [tk EXCEPT !.pc = Entered, !.ph = "idle"]
           ELSE [tk EXCEPT !.pc = "render"]
  /\ UNCHANGED << SceneVars, LoopOnly, widgetvars, acfg, debug, otime, current_scene, ret,
                  pbag, ares, last, nops, th, terr, torn >>

\* the for loop of _check_phase_complete
TkLoop ==
  /\ tk.pc = "loop"
  /\ tk' = [tk EXCEPT !.pc =
             IF \E i \in 1..Len(cur["R"]) :
                  tk.t >= cur["R"][i][1] /\ ~anim[cur["R"][i][2]].completed
             THEN Refused ELSE "max"]
  /\ UNCHANGED << SceneVars, LoopOnly, widgetvars, acfg, debug, otime, current_scene, ret,
                  pbag, ares, last, nops, th, terr, torn >>

\* max(start_time for start_time, _ in self.current_animations): ValueError
\* for an empty list, which leaves the tick
TkMax ==
  /\ tk.pc = "max"
  /\ IF cur["R"] = << >>
     THEN terr' = TRUE /\ tk' = [tk EXCEPT !.pc = "idle"]
     ELSE /\ terr' = terr
          /\ tk' = [tk EXCEPT !.pc =
                      IF tk.t < MaxSeq([i \in 1..Len(cur["R"]) |->
                                         cur["R"][i][1]])
                      THEN Refused ELSE "transition"]
  /\ UNCHANGED << SceneVars, LoopOnly, widgetvars, acfg, debug, otime, current_scene, ret,
                  pbag, ares, last, nops, th, torn >>

\* the body of the condition that held
TkTransition ==
  /\ tk.pc = "transition"
  /\ \E h \in {IF tk.ph = "entrance" /\ phases["R"].idle = << >>
                THEN set_animation_phase(Heap, "R", NoPhase)
                ELSE set_animation_phase(Heap, "R", "idle")} :
       /\ ~h.err /\ InRange(h)
       /\ Commit(h)
  /\ tk' = [tk EXCEPT !.pc = "render"]
  /\ UNCHANGED << LoopOnly, widgetvars, acfg, debug, otime, current_scene, ret, pbag, ares,
                  last, nops, th, terr, torn >>

\* buffer = self.render(self._time)
TkRender ==
  /\ tk.pc = "render"
  /\ \E r \in {render(Heap, "R", tk.t)} :
       /\ ~r.h.err /\ WithinCalls(r.h) /\ InRange(r.h)
       /\ Commit(r.h)
       /\ ret' = r.buf
  /\ torn' = (torn \/ (th.pc = "load" /\ th.i > 0))
  /\ tk' = [tk EXCEPT !.pc = "idle"]
  /\ last' = Op("tick", "R", tk.t, "-")
  /\ UNCHANGED << LoopOnly, widgetvars, acfg, debug, otime, current_scene, pbag, ares,
                  nops, th, terr >>

\* R holds the leaf a; its entrance phase has two animations, its idle
\* phase has none.
InitThread ==
  /\ SceneInit({ << At(0, "e1"), At(1, "e2") >> }, { << >> }, << "a" >>)
  /\ last = Op("init", "-", 0, "-")

NextThread ==
  \/ \E t \in stime["R"]..MaxTime : TkStart(t)
  \/ TkElif
  \/ TkLoop
  \/ TkMax
  \/ TkTransition
  \/ TkRender
  \/ /\ nops < MaxOps
     /\ \E ph \in {NoPhase, "entrance", "idle"} : ThCall(ph)
  \/ ThClear
  \/ ThLoad

SpecThread == InitThread /\ [][NextThread]_vars

\* ------------------------------------------------- a Layout and its focus
\* The components and the layout that a call can change.
FocusState == [widget |-> widget, lay |-> lay, log |-> << >>]

FocusCommit(fs) == widget' = fs.widget /\ lay' = fs.lay /\ log' = fs.log

SceneState == << comp, value, children, bag, cur, phase, stime, phases, anim >>
Aside == << SceneState, LoopOnly, threadvars, acfg, debug, otime,
            current_scene, ret, nops, pbag, ares >>

\* layout.add(id, component), with an id the layout does not hold yet
LayoutAdd(w) ==
  /\ w \notin Ids(lay.children)
  /\ FocusCommit(Layout_add(FocusState, w))
  /\ last' = Op("add", "L", last.t, lay.focused_child)
  /\ UNCHANGED << Aside, sb, txt, tbl >>

\* layout.set_focused_component(id); last.arg keeps the child that held the
\* focus before a call on the layout
SetFocusedComponent(id) ==
  /\ FocusCommit(set_focused_component(FocusState, id))
  /\ last' = Op("set_focused_component", id, last.t, lay.focused_child)
  /\ UNCHANGED << Aside, sb, txt, tbl >>

\* layout.focus_next()
FocusNext ==
  /\ FocusCommit(focus_next(FocusState))
  /\ last' = Op("focus_next", "L", last.t, lay.focused_child)
  /\ UNCHANGED << Aside, sb, txt, tbl >>

\* layout.focus_previous()
FocusPrevious ==
  /\ FocusCommit(focus_previous(FocusState))
  /\ last' = Op("focus_previous", "L", last.t, lay.focused_child)
  /\ UNCHANGED << Aside, sb, txt, tbl >>

\* An empty VStack; components are added to it in any order and the focus
\* is moved.
InitLayout ==
  /\ SceneInit({ << >> }, { << >> }, << >>)
  /\ last = Op("init", "-", 0, NoChild)

NextLayout ==
  \/ \E w \in Widgets : LayoutAdd(w)
  \/ \E id \in Widgets \cup {NoSuchChild} : SetFocusedComponent(id)
  \/ FocusNext
  \/ FocusPrevious

SpecLayout == InitLayout /\ [][NextLayout]_vars

\* ------------------------------------------------- the hooks of a component
\* component._trigger_mount()
TriggerMount(w) ==
  /\ FocusCommit(trigger_mount(FocusState, w))
  /\ last' = Op("trigger_mount", w, last.t, "-")
  /\ UNCHANGED << Aside, sb, txt, tbl >>

\* component._trigger_unmount()
TriggerUnmount(w) ==
  /\ FocusCommit(trigger_unmount(FocusState, w))
  /\ last' = Op("trigger_unmount", w, last.t, "-")
  /\ UNCHANGED << Aside, sb, txt, tbl >>

\* component.set_focus(focused)
ComponentSetFocus(w, focused) ==
  /\ FocusCommit(set_focus(FocusState, w, focused))
  /\ last' = Op("set_focus", w, last.t, focused)
  /\ UNCHANGED << Aside, sb, txt, tbl >>

\* Components on their own: each trigger is called in any state.
InitHooks ==
  /\ SceneInit({ << >> }, { << >> }, << >>)
  /\ last = Op("init", "-", 0, "-")

NextHooks ==
  \/ \E w \in Widgets : TriggerMount(w)
  \/ \E w \in Widgets : TriggerUnmount(w)
  \/ \E w \in Widgets, focused \in BOOLEAN : ComponentSetFocus(w, focused)

SpecHooks == InitHooks /\ [][NextHooks]_vars

\* ------------------------------------------------------ scrolling widgets
\* one Scrollbar, one TextComponent and one TableComponent, scrolled by the
\* application; the sizes and positions include those of the scroll-clamp
\* scenario (content 300, viewport 100, positions 1000 and -50)
Sizes == {0, MaxSize, 300}
Positions == {-50, -1, 0, 1, MaxSize, 1000}
Deltas == {-MaxSize, -1, 0, 1, MaxSize}
Widths == {NoMax} \cup (1..MaxSize)
TextWidths == 0..(MaxSize + 1)

ScrollAside == << Aside, log, widget, lay >>

SetScrollPosition(p) ==
  /\ sb' = set_scroll_position(sb, p)
  /\ last' = Op("set_scroll_position", "sb", last.t, p)
  /\ UNCHANGED << ScrollAside, txt, tbl >>

SetContentSize(size) ==
  /\ sb' = set_content_size(sb, size)
  /\ last' = Op("set_content_size", "sb", last.t, size)
  /\ UNCHANGED << ScrollAside, txt, tbl >>

TextScrollTo(x) ==
  /\ txt' = text_scroll_to(txt, x)
  /\ last' = Op("scroll_to", "txt", last.t, x)
  /\ UNCHANGED << ScrollAside, sb, tbl >>

TextScrollBy(dx) ==
  /\ txt' = text_scroll_by(txt, dx)
  /\ last' = Op("scroll_by", "txt", last.t, dx)
  /\ UNCHANGED << ScrollAside, sb, tbl >>

SetText(text_width, preserve_scroll) ==
  /\ txt' = set_text(txt, text_width, preserve_scroll)
  /\ last' = Op("set_text", "txt", last.t, text_width)
  /\ UNCHANGED << ScrollAside, sb, tbl >>

TableScrollTo(x, y) ==
  /\ tbl' = table_scroll_to(tbl, x, y)
  /\ last' = Op("scroll_to", "tbl", last.t, << x, y >>)
  /\ UNCHANGED << ScrollAside, sb, txt >>

TableScrollBy(dx, dy) ==
  /\ tbl' = table_scroll_by(tbl, dx, dy)
  /\ last' = Op("scroll_by", "tbl", last.t, << dx, dy >>)
  /\ UNCHANGED << ScrollAside, sb, txt >>

\* the application constructs the three widgets; one of them takes its
\* arguments from the sets above, the other two keep their defaults
InitScroll ==
  /\ ObjectsInit({ << >> }, { << >> }, << >>)
  /\ acfg = AnimCfg
  /\ \/ /\ \E v \in {MaxSize, 100}, p \in {0, 1000} : sb = Scrollbar(v, 200, p)
        /\ txt = TextComponent(0, 0, NoMax, "NONE")
        /\ tbl = TableComponent(0, 0, NoMax, NoMax)
     \/ /\ sb = Scrollbar(100, 200, 0)
        /\ \E tw \in TextWidths, pad \in 0..1, mw \in Widths,
              au \in {"X", "NONE"} : txt = TextComponent(tw, pad, mw, au)
        /\ tbl = TableComponent(0, 0, NoMax, NoMax)
     \/ /\ sb = Scrollbar(100, 200, 0)
        /\ txt = TextComponent(0, 0, NoMax, "NONE")
        /\ \E fw \in {1, MaxSize + 1}, fh \in {1, MaxSize + 1},
              mw \in {NoMax, 0, MaxSize}, mh \in {NoMax, 0, MaxSize} :
             tbl = TableComponent(fw, fh, mw, mh)
  /\ last = Op("construct", "-", 0, "-")

NextScroll ==
  \/ \E p \in Positions : SetScrollPosition(p)
  \/ \E size \in Sizes : SetContentSize(size)
  \/ \E x \in Positions : TextScrollTo(x)
  \/ \E dx \in Deltas : TextScrollBy(dx)
  \/ \E tw \in TextWidths, preserve_scroll \in BOOLEAN :
       SetText(tw, preserve_scroll)
  \/ \E x \in {-1, 0, MaxSize}, y \in {-1, 0, MaxSize} : TableScrollTo(x, y)
  \/ \E dx \in {-1, 0, 1}, dy \in {-1, 0, 1} : TableScrollBy(dx, dy)

SpecScroll == InitScroll /\ [][NextScroll]_vars

\* ------------------------------------------------------ focus and content
\* a Layout whose children are added and focused while the application
\* changes the text of the TextComponent w4, which scrolls at first
InitFocus ==
  /\ ObjectsInit({ << >> }, { << >> }, << >>)
  /\ acfg = AnimCfg
  /\ sb = Scrollbar(100, 200, 0)
  /\ txt = TextComponent(MaxSize + 1, 0, MaxSize, "X")
  /\ tbl = TableComponent(0, 0, NoMax, NoMax)
  /\ last = Op("init", "-", 0, NoChild)

NextFocus ==
  \/ \E w \in Widgets : LayoutAdd(w)
  \/ \E id \in Widgets \cup {NoSuchChild} : SetFocusedComponent(id)
  \/ FocusNext
  \/ FocusPrevious
  \/ \E tw \in {1, MaxSize + 1} : SetText(tw, TRUE)

SpecFocus == InitFocus /\ [][NextFocus]_vars

\* ------------------------------------------------------ stacking order
\* The scene R holds the leaf a and the scene N at the same position.  Their
\* z_index is changed, a is removed and added again, the leaf c changes
\* colour, and R is rendered in between.
InitZ ==
  /\ SceneInit({ << >> }, { << >> }, << "a", "N" >>)
  /\ last = Op("init", "-", 0, "-")

NextZ ==
  \/ \E t \in last.t..MaxTime : Render("R", t)
  \/ /\ nops < MaxOps
     /\ \/ \E c \in {"a", "N"}, z \in 0..1 : SetBag("R", c, "z_index", z)
        \/ RemoveChild("R", "a")
        \/ AddChild("R", "a", 0)
        \/ \E v \in Values : SetValue("c", v)

SpecZ == InitZ /\ [][NextZ]_vars

\* ------------------------------------------------------- nested scenes
\* The scene R holds the leaf a and the scene N, which holds the leaf c.  R
\* is rendered directly at strictly increasing times, as
\* tests/test_component_architecture.py does; the time of N is assigned by
\* hand and the entrance phases are started between the renders.
InitNested ==
  /\ SceneInit({ << At(0, "e1") >> }, { << >> }, << "a", "N" >>)
  /\ last = Op("init", "-", 0, "-")

NextNested ==
  \/ \E t \in (last.t + 1)..MaxTime : Render("R", t)
  \/ /\ nops < MaxOps
     /\ \/ \E v \in Values : SetValue("c", v)
        \/ \E v \in 0..1 : SetBag("R", "a", "x", v)
        \/ \E s \in Scenes : SetAnimationPhase(s, "entrance")
        \/ \E t \in 1..2 : SetSceneTime("N", t)

SpecNested == InitNested /\ [][NextNested]_vars

\* ------------------------------------------------------ leaving and entering
\* the scene R of the orchestrator with a SlideIn on its child as entrance
\* and a SlideOut on it as exit; the application starts a phase only when
\* the animations of the running one are complete
Directions == {"left", "right", "top", "bottom"}

InitSlide ==
  /\ ObjectsInit({ << At(0, "e1") >> }, { << >> }, << "a" >>)
  /\ ScrollDefaults
  /\ \E din \in Directions, dout \in Directions, distance \in 1..2 :
       acfg = [AnimCfg EXCEPT !["e1"] = SlideIn("a", din, distance, 1),
                              !["x1"] = SlideOut("a", dout, distance, 1)]
  /\ last = Op("init", "-", 0, "-")

SlideEnter ==
  /\ current_scene = NoPhase
  /\ TransitionTo("R")

SlideLeave ==
  /\ current_scene = "R" /\ phase["R"] # "exit"
  /\ check_phase_complete(Heap, "R", stime["R"])
  /\ SetAnimationPhase("R", "exit")

SlideReenter ==
  /\ current_scene = "R" /\ phase["R"] = "exit"
  /\ check_phase_complete(Heap, "R", stime["R"])
  /\ SetAnimationPhase("R", "entrance")

NextSlide ==
  \/ \E t \in otime..MaxTime : RenderSingleFrame(t)
  \/ SlideEnter
  \/ SlideLeave
  \/ SlideReenter

SpecSlide == InitSlide /\ [][NextSlide]_vars

\* ------------------------------------------------------ the running loop
\* the orchestrator enters the scene R when its clock starts and then renders
\* a frame at every time unit; R has an entrance of finite animations on the
\* child a, which it holds or not, and the application changes the leaf
LiveEnter ==
  /\ current_scene = NoPhase /\ otime = 0
  /\ TransitionTo("R")

\* one turn of the loop.  The clock is followed up to MaxTime, by which every
\* entrance animation of the model has ended; the loop goes on, and its
\* later frames are rendered at MaxTime
LiveFrame ==
  /\ current_scene = "R"
  /\ RenderSingleFrame(Min2(otime + 1, MaxTime))

InitLive ==
  /\ \E rootChildren \in { << >>, << "a" >> } :
       SceneInit(RootEntrances \ { << >> }, RootIdles, rootChildren)
  /\ last = Op("init", "-", 0, "-")

NextLive ==
  \/ LiveEnter
  \/ LiveFrame
  \/ /\ nops < MaxOps
     /\ \E v \in Values : SetValue("a", v)

\* the render loop keeps rendering frames while it runs
SpecLive == InitLive /\ [][NextLive]_vars /\ WF_vars(LiveEnter) /\ WF_vars(LiveFrame)

\* ------------------------------------------------------ stopping from a coroutine
\* The coroutine that stops the loop runs on the event loop of start_async:
\* it runs only while the coroutine of start_async is suspended at its
\* await, and wpc is where it is: "off" (it has not run), "exiting" (inside
\* __aexit__, at await asyncio.sleep(max_duration)), "join" (at await
\* self._render_task).

\* scene.stop(), called directly by the other coroutine
CoStop ==
  /\ wpc = "off" /\ pc = "sleep"
  /\ Stop

\* Scene.__aexit__ up to its sleep: on_exit() starts the exit phase (R has
\* exit animations)
AExitBegin ==
  /\ wpc = "off" /\ pc = "sleep" /\ running
  /\ \E h \in {set_animation_phase(Heap, "R", "exit")} : Commit(h)
  /\ wpc' = "exiting"
  /\ last' = Op("aexit", "R", last.t, "-")
  /\ UNCHANGED << Others, ret, running, pc, now, t0, duration, stopped,
                  display, wphase, wstart, wtimeout, wseen >>

\* Scene.__aexit__ after its sleep: self.stop(), then the task is awaited
AExitStop ==
  /\ wpc = "exiting" /\ pc \in {"sleep", "done"}
  /\ running' = FALSE
  /\ stopped' = IF stopped = "no" THEN pc ELSE stopped
  /\ wpc' = "join"
  /\ UNCHANGED << SceneVars, Others, ret, last, pc, now, t0, duration,
                  display, wphase, wstart, wtimeout, wseen >>

\* one step of the coroutine of start_async
LoopStep ==
  \/ LoopTest
  \/ LoopRender
  \/ LoopCallback
  \/ LoopAfter
  \/ LoopWake

NextYield ==
  \/ \E d \in {0, MaxTime} : LoopStart(d)
  \/ LoopStep
  \/ Tick
  \/ CoStop
  \/ AExitBegin
  \/ AExitStop

\* the event loop runs the coroutine of start_async whenever it can go on,
\* and it runs the stopping coroutine, which is ready all the time, when the
\* coroutine of start_async is suspended again and again
SpecYield ==
  /\ InitLoop /\ [][NextYield]_vars
  /\ WF_vars(LoopStep)
  /\ SF_vars(CoStop \/ AExitBegin)
  /\ SF_vars(AExitStop)

\* ------------------------------------------------------ a driven nested scene
\* The orchestrator drives the scene R, which holds the leaf a and the scene
\* N; the application starts the entrance phase of N (a Sequence of two
\* Animates on its leaf c) and the loop renders a frame at every tick.
NestedEnter ==
  /\ phase["N"] = NoPhase /\ otime = 0
  /\ SetAnimationPhase("N", "entrance")

InitDriven ==
  /\ SceneInit(RootEntrances, RootIdles, << "a", "N" >>)
  /\ last = Op("init", "-", 0, "-")

NextDriven ==
  \/ LiveEnter
  \/ NestedEnter
  \/ LiveFrame
  \/ /\ nops < MaxOps
     /\ \E v \in Values : SetValue("c", v)

SpecDriven ==
  /\ InitDriven /\ [][NextDriven]_vars
  /\ WF_vars(LiveEnter) /\ WF_vars(NestedEnter) /\ WF_vars(LiveFrame)

\* ------------------------------------------------------ snapshots
\* scene.compute_state(time), called by the application; last.arg keeps the
\* snapshot it returned
ComputeState(s) ==
  \E r \in {compute_state(Heap, s, last.t)} :
  /\ ~r.h.err /\ InRange(r.h)
  /\ Commit(r.h)
  /\ last' = Op("compute_state", s, last.t, r.state)
  /\ UNCHANGED << loopvars, acfg, debug, otime, current_scene, ret, nops,
                  pbag, ares >>

\* the two scenes with their entrances (an Animate for R, a Sequence for N),
\* their clocks set by the application between the snapshots
InitIdem ==
  /\ SceneInit({ << At(0, "e1") >> }, { << >> }, << "a", "N" >>)
  /\ last = Op("init", "-", 0, "-")

NextIdem ==
  \/ \E s \in Scenes : ComputeState(s)
  \/ /\ nops < MaxEdits
     /\ \/ \E s \in Scenes : SetAnimationPhase(s, "entrance")
        \/ \E s \in Scenes, t \in 0..MaxTime : SetSceneTime(s, t)

SpecIdem == InitIdem /\ [][NextIdem]_vars

\* ---------------------------------------------------------- properties
\* the events of the last operation that satisfy a test
Events(ev) == {i \in 1..Len(log) : log[i].ev = ev}

\* the component a render step was called on, its cache before the call,
\* and the snapshot of the call as render leaves it in _last_state
Rendered == last'.who
SnapshotKey == make_hashable(comp'[Rendered].last_state[1])
StoredBefore == comp[Rendered].cache

\* what render hands out for a stored buffer: the buffer itself, or a copy
\* with the focus outline when DEBUG_RENDER is on and the component focused
HandedOut(buf) ==
  IF debug /\ comp[Rendered].focused
  THEN [buf EXCEPT !.copy = TRUE, !.outline = TRUE]
  ELSE buf

\* C1 (as amended): a render whose snapshot (the compute_state output, with
\* the _debug_focused flag while DEBUG_RENDER is on) is the key of a stored
\* entry runs no _render_cached body and returns the stored buffer itself,
\* or an outlined copy of it when DEBUG_RENDER is on and the component is
\* focused, whatever the time argument; a render whose snapshot matches no
\* stored key runs the body exactly once.
C1_CacheHitReturnsStored ==
  [][last'.op = "render" =>
       IF SnapshotKey \in CacheKeys(StoredBefore)
       THEN /\ comp'[Rendered].calls = comp[Rendered].calls
            /\ ret' = HandedOut(CacheGet(StoredBefore, SnapshotKey))
       ELSE comp'[Rendered].calls = comp[Rendered].calls + 1]_vars

\* C1 witness: a hit at a time other than the one the entry was rendered
\* at, answered in debug mode by an outlined copy
C1_Witness ==
  /\ last.op = "render" /\ Events("hit") # {} /\ Events("body") = {}
  /\ last.t > comp[last.who].rendered_at
  /\ debug /\ comp[last.who].focused /\ ret.copy /\ ret.outline

\* C1 as stated: the key is the compute_state output and the stored buffer
\* object itself is returned
C1_Original ==
  [][last'.op = "render" =>
       LET key == make_hashable(compute_state(Heap, Rendered, last'.t).state)
       IN IF key \in CacheKeys(StoredBefore)
          THEN /\ comp'[Rendered].calls = comp[Rendered].calls
               /\ ret' = CacheGet(StoredBefore, key)
          ELSE comp'[Rendered].calls = comp[Rendered].calls + 1]_vars

\* the snapshot a render(t) of a component takes in the current state
SnapshotOf(id, t) ==
  LET state == compute_state(Heap, id, t).state
  IN IF debug THEN Put(state, "_debug_focused", comp[id].focused) ELSE state

\* C2: every render call leaves _rendered_at unchanged when its snapshot
\* equals the snapshot of the previous render call of the component, and
\* sets it to exactly its time argument when the snapshot differs; this
\* holds for the component the call is made on and for every component
\* rendered inside the call.
C2_RenderedAtTracksSnapshot ==
  [][last'.op = "render" =>
       /\ comp'[Rendered].rendered_at =
            IF << SnapshotOf(Rendered, last'.t) >> = comp[Rendered].last_state
            THEN comp[Rendered].rendered_at ELSE last'.t
       /\ \A id \in Comps :
            comp'[id].rendered_at =
              IF comp'[id].last_state = comp[id].last_state
              THEN comp[id].rendered_at ELSE last'.t]_vars

\* C2 witness: a scene rendered a second time, later, with an unchanged
\* snapshot keeps the time of the first render
C2_Witness ==
  /\ last.op = "render" /\ last.who = "R"
  /\ comp["R"].rendered_at > 0 /\ comp["R"].rendered_at < last.t
  /\ Events("hit") # {}

\* the ordinals of the body runs that made the buffers a cache holds
Ordinals(cache) == {cache[i].buf.obj[2] : i \in 1..Len(cache)}

Recorded(s) == comp[s].last_state[1].children
BagOf(entry) == [p \in DOMAIN entry \ {"_child_state"} |-> entry[p]]
ChildStateOf(entry) ==
  IF "_child_state" \in DOMAIN entry THEN << entry["_child_state"] >>
  ELSE << >>

\* the compute_state output of a child differs from the recorded one
DescendantChanged(s, t) ==
  \E c \in DOMAIN bag[s] \cap DOMAIN Recorded(s) :
    ChildStateOf(Recorded(s)[c])
      # << make_hashable(compute_state(Heap, c, t).state) >>

\* a bag differs from the recorded one, or a child was added or removed
BagsChanged(bags, s) ==
  \/ DOMAIN bags[s] # DOMAIN Recorded(s)
  \/ \E c \in DOMAIN bags[s] \cap DOMAIN Recorded(s) :
       BagOf(Recorded(s)[c]) # bags[s][c]

\* the composite the cache holds for the snapshot of the previous render
EarlierComposite(s) ==
  CacheGet(comp[s].cache, make_hashable(comp[s].last_state[1]))

\* the second of two renders of a scene
SecondSceneRender ==
  /\ last'.op = "render" /\ Rendered \in Scenes
  /\ comp[Rendered].last_state # << >>

\* C3 (as amended): between two Scene.render calls, a change of a child's
\* bag that is still there after the animations of the second call have
\* been applied, or a change of the compute_state output of a descendant
\* (a component inside a nested Scene included), makes the snapshot differ:
\* the second call sets _rendered_at to its time argument and does not
\* return the composite cached for the earlier snapshot.
C3_ChangeInvalidatesScene ==
  [][(SecondSceneRender /\ (\/ BagsChanged(bag', Rendered)
                            \/ DescendantChanged(Rendered, last'.t)))
       => /\ comp'[Rendered].rendered_at = last'.t
          /\ ret'.obj # EarlierComposite(Rendered).obj]_vars

\* C3 witness: the leaf inside the nested scene changed between two renders
\* of the outer scene, which rendered itself, the nested scene and the leaf
\* again and only them
C3_Witness ==
  /\ last.op = "render" /\ last.who = "R" /\ comp["R"].rendered_at = last.t
  /\ comp["R"].calls = 2 /\ comp["N"].calls = 2 /\ comp["c"].calls = 2
  /\ comp["a"].calls = 1 /\ Len(comp["c"].cache) = 2

\* C3 as stated: any change made to a child's bag between the two calls
C3_Original ==
  [][(SecondSceneRender /\ (\/ BagsChanged(bag, Rendered)
                            \/ DescendantChanged(Rendered, last'.t)))
       => /\ comp'[Rendered].rendered_at = last'.t
          /\ ret'.obj # EarlierComposite(Rendered).obj]_vars

\* C5: within one Scene.render call every animation update of the scene's
\* children comes before the first render of a child, the snapshot holds the
\* bags as they are after these updates, and once a child render has been
\* invoked no bag is changed, in this scene or in a child that is a Scene.
C5_AnimationsBeforePixels ==
  (last.op = "render" /\ last.who \in Scenes) =>
    /\ \A i \in Events("render"), j \in Events("update") :
         (1 < i /\ i < j) => (log[j].who # last.who /\ ~log[j].ch)
    /\ \A c \in DOMAIN bag[last.who] :
         BagOf(Recorded(last.who)[c]) = bag[last.who][c]

\* a frame of the driver on the scene it drives
Frame == last'.op = "frame" /\ current_scene # NoPhase

\* the idle animations of a scene, scheduled at time t
IdleAt(s, t) ==
  [i \in 1..Len(phases[s].idle) |->
     << t + phases[s].idle[i][1], phases[s].idle[i][2] >>]

\* C6: at a tick of the render loop, a scene in phase entrance whose
\* completion test holds moves to idle, loaded at the tick's time, if it has
\* idle animations and to no phase with an empty active list otherwise; a
\* scene in phase idle whose completion test holds is loaded into idle
\* again, at every such tick; while the test fails the phase and the active
\* list stay as they are.
C6_PhaseDriver ==
  [][Frame =>
       LET s == current_scene
           t == last'.t
           done == check_phase_complete(Heap, s, t)
       IN /\ (phase[s] = "entrance" /\ done /\ phases[s].idle # << >>)
               => (phase'[s] = "idle" /\ cur'[s] = IdleAt(s, t))
          /\ (phase[s] = "entrance" /\ done /\ phases[s].idle = << >>)
               => (phase'[s] = NoPhase /\ cur'[s] = << >>)
          /\ (phase[s] = "idle" /\ done)
               => (phase'[s] = "idle" /\ cur'[s] = IdleAt(s, t))
          /\ (phase[s] \in {"entrance", "idle"} /\ ~done)
               => (phase'[s] = phase[s] /\ cur'[s] = cur[s])]_vars

\* C6 witness: a tick after the first left the scene in idle, its idle
\* animation loaded anew at the time of that tick
C6_Witness ==
  /\ last.op = "frame" /\ last.who = "R" /\ phase["R"] = "idle"
  /\ cur["R"] = << At(last.t, "i1") >> /\ last.t >= 2
  /\ \E i \in Events("update") : log[i].anim = "i1" /\ log[i].el = 0

\* the names set_animation_phase knows for a scene
Known(s) == {"entrance", "idle", "exit"} \cup DOMAIN phases[s].custom

\* C7: starting a known phase at scene time T makes the active list exactly
\* the animations of the phase, each scheduled at T plus its offset, each
\* reset (resolved anew and not completed), and leaves the bag of every
\* target that is a child at the frame-zero value of its animation.
C7_StartPhaseLoads ==
  [][(last'.op = "set_animation_phase" /\ last'.arg \in Known(last'.who)) =>
       LET s == last'.who
           found == PhaseAnimations(Heap, s, last'.arg)[1]
       IN /\ phase'[s] = last'.arg
          /\ cur'[s] = [i \in 1..Len(found) |->
                          << stime[s] + found[i][1], found[i][2] >>]
          /\ \A i \in 1..Len(found) :
               LET a == found[i][2]
                   target == acfg[a].target
               IN target \in DOMAIN bag[s] =>
                    /\ anim'[a].resolved /\ ~anim'[a].completed
                    /\ \A p \in DOMAIN anim'[a].rfrom :
                         bag'[s][target][p] = anim'[a].rfrom[p]
                    /\ \A p \in DOMAIN acfg[a].from_params_int :
                         bag'[s][target][p] = acfg[a].from_params_int[p]]_vars

\* C7 witness: the entrance started again at a scene time after 0 and moved
\* its target back to the frame-zero position
C7_Witness ==
  /\ last.op = "set_animation_phase" /\ last.arg = "entrance"
  /\ stime["R"] >= 1 /\ "a" \in DOMAIN bag["R"] /\ cur["R"] # << >>
  /\ cur["R"][1][1] = stime["R"]
  /\ \E i \in Events("update") : log[i].ch

\* C8: set_animation_phase with a name that is not known leaves the current
\* phase and the active list as they were.
C8_UnknownPhaseIsNoOp ==
  [][(last'.op = "set_animation_phase" /\ last'.arg \notin Known(last'.who)
        /\ last'.arg # NoPhase)
       => (phase' = phase /\ cur' = cur)]_vars

\* animation a was updated on a child of scene s in the operation that led
\* to the state
UpdatedIn(lg, s, a) ==
  \E k \in 1..Len(lg) : lg[k].ev = "update" /\ lg[k].who = s /\ lg[k].anim = a

\* C9: at a frame, an active animation is updated exactly when its target
\* is a child of the scene, so one whose target is missing is not updated
\* and is updated from the first frame after the child was added; as long as
\* it has not completed it stays in the active list; and no frame and no
\* set_animation_phase raises.
C9_MissingTargetSkipped ==
  [][/\ \A ph \in Known("R") \cup {Unknown} :
          ~set_animation_phase(Heap, "R", ph).err
     /\ current_scene # NoPhase =>
          \A t \in otime..MaxTime : ~render_frame(Heap, current_scene, t).h.err
     /\ Frame =>
          LET s == current_scene IN
          /\ \A i \in 1..Len(cur'[s]) :
               UpdatedIn(log', s, cur'[s][i][2])
                 <=> acfg[cur'[s][i][2]].target \in DOMAIN bag[s]
          /\ \A i \in 1..Len(cur[s]) :
               (/\ acfg[cur[s][i][2]].target \notin DOMAIN bag[s]
                /\ ~anim[cur[s][i][2]].completed)
                 => \E j \in 1..Len(cur'[s]) : cur'[s][j] = cur[s][i]]_vars

\* C9 witness: a frame after time 0 with an active animation whose target is
\* not a child: nothing was updated and the animation is still active
C9_Witness ==
  /\ last.op = "frame" /\ last.who = "R" /\ last.t >= 1
  /\ cur["R"] # << >> /\ "a" \notin DOMAIN bag["R"]
  /\ Events("update") = {} /\ Events("body") # {}

\* C10: no update of a constructed animation raises.
C10_UpdateNeverRaises == ~ares.err

\* ------------------------------------------ properties of the animations
\* the animation object that is updated directly
Direct == last.who

\* C11: once update of an animation has returned True, every later update,
\* for any elapsed value, returns True and leaves the property bag as it is,
\* until reset() is called (a reset clears the recorded return value).
C11_CompletedStaysCompleted ==
  [][(last'.op = "update" /\ ares.ret)
       => (ares'.ret /\ ~ares'.err /\ pbag' = pbag)]_vars

\* C11 witness: a Sequence of positive duration that has completed answers
\* True to an update at elapsed 0 and leaves alone a bag that was changed
\* after its completion
C11_Witness ==
  /\ last.op = "update" /\ last.t = 0 /\ ares.ret
  /\ acfg[Direct].kind = "Sequence" /\ acfg[Direct].duration > 0
  /\ pbag["x"] = -1

\* the start value, the end value and the duration the Animate was
\* constructed with
LerpA == acfg[Lerp].from_params_int["x"]
LerpB == acfg[Lerp].to_params_int["x"]
LerpD == acfg[Lerp].duration

\* half of n, rounded toward zero
HalfTowardZero(n) == IF n >= 0 THEN n \div 2 ELSE -((-n) \div 2)

\* an update of the Animate that has not completed
LerpUpdate == last'.op = "update" /\ Direct = Lerp /\ ~anim[Lerp].completed

\* C12 (as amended): update at elapsed 0 writes A; update at elapsed D writes
\* B and returns True; update at elapsed D/2 writes, for a parameter declared
\* through an integer variant, the half (A+B)/2 truncated toward zero, which
\* is the floor division (A+B)//2 when A+B is even or not negative.
C12_LinearBoundaries ==
  [][LerpUpdate =>
       /\ last'.t = 0 => (pbag'["x"] = LerpA /\ ~ares'.ret)
       /\ last'.t = LerpD => (pbag'["x"] = LerpB /\ ares'.ret)
       /\ 2 * last'.t = LerpD =>
            /\ pbag'["x"] = HalfTowardZero(LerpA + LerpB)
            /\ (LerpA + LerpB >= 0 \/ (LerpA + LerpB) % 2 = 0)
                 => pbag'["x"] = (LerpA + LerpB) \div 2]_vars

\* C12 witness: the update at half the duration of an Animate whose A+B is
\* odd and negative
C12_Witness ==
  /\ last.op = "update" /\ Direct = Lerp /\ 2 * last.t = LerpD
  /\ ~anim[Lerp].completed /\ anim[Lerp].resolved
  /\ LerpA + LerpB < 0 /\ (LerpA + LerpB) % 2 = 1
  /\ pbag["x"] = HalfTowardZero(LerpA + LerpB)

\* C12 as stated: the integer variant writes the floor division (A+B)//2
C12_Original ==
  [][LerpUpdate =>
       /\ last'.t = 0 => pbag'["x"] = LerpA
       /\ last'.t = LerpD => (pbag'["x"] = LerpB /\ ares'.ret)
       /\ 2 * last'.t = LerpD => pbag'["x"] = (LerpA + LerpB) \div 2]_vars

\* the start and the end value of parameter p that an Animate with
\* constructor fields c takes from the bag bg
StartEnd(c, bg, p) ==
  LET to_val == IF p \in DOMAIN c.to_params_int THEN c.to_params_int[p]
                ELSE IF p \in DOMAIN c.to_params_rel_int
                     THEN Get(bg, p) + c.to_params_rel_int[p]
                ELSE Get(bg, p)
      from_val == IF p \in DOMAIN c.from_params_int THEN c.from_params_int[p]
                  ELSE IF p \in DOMAIN c.from_params_rel_int
                       THEN to_val + c.from_params_rel_int[p]
                  ELSE Get(bg, p)
  IN << from_val, to_val >>

\* C13: an Animate resolves the start and the end value of each parameter
\* from the bag at the first apply of a run and keeps them afterwards,
\* whatever is done to the bag between the updates; reset() clears them, so
\* the next update resolves them from the bag as it is then.
C13_ResolvedOncePerRun ==
  [][/\ (last'.op = "update" /\ acfg[Direct].kind = "Animate") =>
          IF anim[Direct].completed THEN anim' = anim
          ELSE IF anim[Direct].resolved
               THEN /\ anim'[Direct].rfrom = anim[Direct].rfrom
                    /\ anim'[Direct].rto = anim[Direct].rto
          ELSE /\ anim'[Direct].resolved
               /\ DOMAIN anim'[Direct].rfrom = AllParams(acfg[Direct])
               /\ \A p \in AllParams(acfg[Direct]) :
                    << anim'[Direct].rfrom[p], anim'[Direct].rto[p] >>
                      = StartEnd(acfg[Direct], pbag, p)
     /\ (last'.op = "reset" /\ acfg[Direct].kind = "Animate") =>
          (~anim'[Direct].resolved /\ ~anim'[Direct].completed)
     /\ last'.op = "set" => anim' = anim]_vars

\* C13 witness: an Animate with a relative end value that was updated after
\* the bag had been changed holds the start value 1 and the end value 1 + 2
\* it resolved from the changed bag
C13_Witness ==
  /\ last.op = "update" /\ Direct = "u2" /\ last.t = 0
  /\ anim["u2"].resolved /\ ~anim["u2"].completed
  /\ anim["u2"].rfrom["y"] = 1 /\ anim["u2"].rto["y"] = 3
  /\ pbag["x"] = -1

\* C14: a Sequence of two animations with durations d1 and d2 has duration
\* d1 + d2, returns False from an update before elapsed d1 as long as it has
\* not completed, and returns True from an update at elapsed d1 + d2,
\* whatever updates were made before that call.
C14_SequenceAdditivity ==
  [][(last'.op = "update" /\ acfg[Direct].kind = "Sequence"
        /\ Len(acfg[Direct].animations) = 2) =>
       LET d1 == acfg[acfg[Direct].animations[1]].duration
           d2 == acfg[acfg[Direct].animations[2]].duration
       IN /\ acfg[Direct].duration = d1 + d2
          /\ (last'.t < d1 /\ ~anim[Direct].completed) => ~ares'.ret
          /\ last'.t = d1 + d2 => ares'.ret]_vars

\* the animations a Parallel contains
Contained == {acfg[Direct].animations[i] :
                i \in 1..Len(acfg[Direct].animations)}

\* the animation objects and the bag after child alone is updated with
\* elapsed on the bag as it is
Alone(child, elapsed) == Animation_update(anim, child, pbag, elapsed)

\* C15: an update of a Parallel that has not completed updates every
\* contained animation that has not completed with the elapsed value of the
\* call, leaves every contained animation that has completed as it is (it is
\* not updated), and returns True exactly when every contained animation is
\* completed after the call.
C15_ParallelUpdate ==
  [][(last'.op = "update" /\ acfg[Direct].kind = "Parallel"
        /\ ~anim[Direct].completed /\ ~ares'.err) =>
       /\ \A child \in Contained :
            IF anim[child].completed
            THEN /\ anim'[child] = anim[child]
                 /\ \A p \in DOMAIN anim[child].rfrom : pbag'[p] = pbag[p]
            ELSE /\ anim'[child] = Alone(child, last'.t).A[child]
                 /\ \A p \in DOMAIN anim'[child].rfrom :
                      pbag'[p] = Alone(child, last'.t).bag[p]
       /\ ares'.ret <=> \A child \in Contained : anim'[child].completed
       /\ anim'[Direct].completed = ares'.ret]_vars

\* C15 witness: a Parallel of an Animate of duration 2 and an Animate of
\* duration 1 is updated at elapsed 1 after the shorter one had completed
\* and the bag was changed: the shorter one is not applied again
C15_Witness ==
  /\ last.op = "update" /\ Direct = "p1" /\ last.t = 1 /\ ~ares.ret
  /\ anim["u2"].completed /\ ~anim["u1"].completed /\ anim["u1"].resolved
  /\ pbag["y"] = -1

\* the animation a Loop wraps, and its duration
Wrapped == acfg[Direct].animations[1]
WrappedDuration == acfg[Wrapped].duration

\* an update of a Loop that has not used up its count
LoopUpdate ==
  /\ last'.op = "update" /\ acfg[Direct].kind = "Loop"
  /\ ~anim[Direct].completed /\ ~ares'.err /\ ~ares'.ret

\* C16: an update of a Loop around an Animate whose floor(elapsed /
\* child_duration) is above the iteration number the Loop holds (the highest
\* reached so far: the one of the previous update when elapsed never
\* decreases) resets the wrapped animation, so its start and end values are
\* resolved from the bag as it is at that update, and at the very start of
\* the iteration the value written is the start value taken from the bag
\* then: the current value plus the fixed relative offsets.  An update
\* within the iteration the Loop is in leaves the resolved values alone.
C16_LoopReresolves ==
  [][(LoopUpdate /\ acfg[Wrapped].kind = "Animate") =>
       IF last'.t \div WrappedDuration > anim[Direct].current_iteration
       THEN /\ anim'[Direct].current_iteration = last'.t \div WrappedDuration
            /\ \A p \in AllParams(acfg[Wrapped]) :
                 /\ << anim'[Wrapped].rfrom[p], anim'[Wrapped].rto[p] >>
                      = StartEnd(acfg[Wrapped], pbag, p)
                 /\ last'.t % WrappedDuration = 0
                      => pbag'[p] = StartEnd(acfg[Wrapped], pbag, p)[1]
       ELSE /\ anim'[Direct].current_iteration = anim[Direct].current_iteration
            /\ (anim[Wrapped].resolved /\ ~anim[Wrapped].completed)
                 => /\ anim'[Wrapped].rfrom = anim[Wrapped].rfrom
                    /\ anim'[Wrapped].rto = anim[Wrapped].rto]_vars

\* C16 witness: the Loop around the Animate from 1 above to 2 above the
\* current value starts its second iteration after the bag was set to -1:
\* the value written is -1 + 2 - 1 = 0
C16_Witness ==
  /\ last.op = "update" /\ Direct = "l3" /\ last.t = 2
  /\ anim["l3"].current_iteration = 1
  /\ anim["u3"].rfrom["y"] = 0 /\ anim["u3"].rto["y"] = 1 /\ pbag["y"] = 0

\* ---------------------------------------------- properties of compositing
\* the colour of the pixel at the children's position in a composite with
\* the given layers, drawn on the cleared canvas (0); every child buffer is
\* opaque there and is blitted with opacity 1
RECURSIVE PixelOf(_, _)
PixelOf(layers, dst) ==
  IF layers = << >> THEN dst
  ELSE LET l == Head(layers)
           src == IF l.child \in Leaves THEN l.buf[1] ELSE PixelOf(l.buf, 0)
       IN PixelOf(Tail(layers), Blend(dst, src, 255, 1))

\* the child of scene s that is to be on top: the highest z_index, and the
\* one added last among those that have it
Topmost(s) ==
  LET n == Len(children[s])
      z(i) == Get(bag[s][children[s][i]], "z_index")
      i == CHOOSE j \in 1..n :
             /\ \A k \in 1..n : z(k) <= z(j)
             /\ \A k \in (j + 1)..n : z(k) < z(j)
  IN children[s][i]

\* the colour a component shows at that position
RECURSIVE ColourOf(_)
ColourOf(id) == IF id \in Leaves THEN value[id] ELSE ColourOf(Topmost(id))

\* C17: the composite a Scene hands out has its children in ascending
\* z_index order, children of equal z_index in the order they were added, so
\* with opaque children at one position the pixel has the colour of the
\* child with the highest z_index, the last-added one among equals.
C17_TopmostOnTop ==
  (last.op = "render" /\ last.who = "R" /\ children["R"] # << >>) =>
    /\ \A i \in 1..Len(ret.px), j \in 1..Len(ret.px) :
         i < j => Get(bag["R"][ret.px[i].child], "z_index")
                    <= Get(bag["R"][ret.px[j].child], "z_index")
    /\ ret.px[Len(ret.px)].child = Topmost("R")
    /\ PixelOf(ret.px, 0) = ColourOf("R")

\* the buffers the cache of a component holds
Stored(cm, id) == {cm[id].cache[i].buf : i \in 1..Len(cm[id].cache)}

C19_CooperativeStop ==
  [][/\ (stopped # "no" /\ pc = "render" /\ pc' # pc)
          => (pc' = "callback" /\ last'.op = "tick" /\ ret'.obj # NoBuffer.obj)
     /\ (stopped # "no" /\ pc = "callback" /\ pc' # pc)
          => (pc' = "after" /\ display' = ret)
     /\ (stopped # "no" /\ pc # "render") => pc' # "render"
     /\ (pc # "test" /\ pc' = "render") => pc = "render"
     /\ pc' = "done" => ~running'
     /\ pc = "done" => (pc' = "done" /\ ~running')]_vars

\* stop() came while a frame was rendered; the frame reached the display
\* and the loop has ended
C19_Witness ==
  /\ stopped = "render" /\ pc = "done" /\ ~running
  /\ display = ret /\ display.obj # NoBuffer.obj

\* ------------------------------------------------------ waiting for a phase
\* C20: await_phase_complete returns True only when the scene is in the
\* awaited phase and all its animations have completed, and it returns False
\* only when the timeout has elapsed without the awaited phase having been
\* complete before the deadline.
C20_AwaitPhaseComplete ==
  [][/\ (wpc # "true" /\ wpc' = "true")
          => /\ (wphase' = NoPhase \/ phase["R"] = wphase')
             /\ \A i \in 1..Len(cur["R"]) : anim[cur["R"][i][2]].completed
     /\ (wpc # "false" /\ wpc' = "false")
          => /\ wtimeout' # 0 /\ now - wstart' >= wtimeout'
             /\ ~wseen']_vars

\* --------------------------------------------- a phase set by another thread
\* C21: whatever the interleaving of a tick with a call of
\* set_animation_phase in another thread, no exception leaves the tick and
\* the tick does not compute the state from a list of which only a part has
\* been loaded.
C21_ThreadSafePhase == ~terr /\ ~torn

\* ------------------------------------------------ properties of the focus
\* the place of an id in a list of distinct ids
Place(list, id) == CHOOSE i \in 1..Len(list) : list[i] = id

\* the number of times the hooks of one kind of a component were triggered
Fired(lg, kind, w) ==
  Cardinality({i \in 1..Len(lg) : lg[i].ev = kind /\ lg[i].who = w})

\* C22: the focusable list holds the focusable children in the order they
\* were added; focus_next moves the focus to the following id of the list
\* and from the last to the first, focus_previous to the preceding id and
\* from the first to the last; focus_next followed by focus_previous leaves
\* the focused id as it was before the two; set_focused_component with an id
\* that is unknown or not focusable changes nothing.
C22_FocusCycle ==
  [][LET f == lay.focusable
         held == lay.focused_child
     IN /\ f = SelectSeq(lay.children, is_focusable)
        /\ (last'.op = "focus_next" /\ held # NoChild)
             => lay'.focused_child =
                  IF Place(f, held) = Len(f) THEN f[1]
                  ELSE f[Place(f, held) + 1]
        /\ (last'.op = "focus_previous" /\ held # NoChild)
             => lay'.focused_child =
                  IF Place(f, held) = 1 THEN f[Len(f)]
                  ELSE f[Place(f, held) - 1]
        /\ (last.op = "focus_next" /\ last'.op = "focus_previous")
             => lay'.focused_child = last.arg
        /\ (/\ last'.op = "set_focused_component"
            /\ \/ last'.who \notin Ids(lay.children)
               \/ ~is_focusable(last'.who))
             => (lay' = lay /\ widget' = widget /\ log' = << >>)]_vars

\* focus_next has gone from the last of three focusable children to the
\* first
C22_Witness ==
  /\ last.op = "focus_next"
  /\ Len(lay.focusable) = 3
  /\ last.arg = lay.focusable[3]
  /\ lay.focused_child = lay.focusable[1]

\* C23: a focus operation of the layout that moves the focus from the child
\* P to another child N triggers the focus-lost hooks of P once and the
\* focus-gain hooks of N once and no other hook; an operation after which
\* the same child holds the focus triggers no hook.
C23_HooksOnTransitionOnly ==
  [][last'.op \in {"set_focused_component", "focus_next", "focus_previous"}
       => LET P == lay.focused_child
              N == lay'.focused_child
          IN IF P = N THEN log' = << >>
             ELSE /\ Fired(log', "focus_gain", N) = 1
                  /\ P # NoChild => Fired(log', "focus_lost", P) = 1
                  /\ Len(log') = IF P = NoChild THEN 1 ELSE 2]_vars

\* C24: the mount hooks of a component are triggered exactly when its
\* mounted flag goes from False to True, the unmount hooks when it goes from
\* True to False, the focus-gain and focus-lost hooks when set_focus changes
\* the focused flag; a trigger whose state already holds triggers no hook
\* and changes no flag, and no call changes a flag of another component.
C24_HooksOncePerTransition ==
  [][\A w \in Widgets :
       /\ Fired(log', "mount", w) =
            IF ~widget[w].mounted /\ widget'[w].mounted THEN 1 ELSE 0
       /\ Fired(log', "unmount", w) =
            IF widget[w].mounted /\ ~widget'[w].mounted THEN 1 ELSE 0
       /\ Fired(log', "focus_gain", w) =
            IF ~widget[w].focused /\ widget'[w].focused THEN 1 ELSE 0
       /\ Fired(log', "focus_lost", w) =
            IF widget[w].focused /\ ~widget'[w].focused THEN 1 ELSE 0
       /\ w # last'.who => widget'[w] = widget[w]
       /\ (last'.op = "trigger_mount" /\ widget[w].mounted /\ w = last'.who)
            => widget' = widget
       /\ (last'.op = "trigger_unmount" /\ ~widget[w].mounted /\ w = last'.who)
            => widget' = widget
       /\ (last'.op = "set_focus" /\ w = last'.who
             /\ widget[w].focused = last'.arg)
            => widget' = widget]_vars

\* set_focus(True) was called on a component that was focused and mounted:
\* nothing was triggered
C24_Witness ==
  /\ last.op = "set_focus" /\ last.arg = TRUE
  /\ widget[last.who].focused /\ widget[last.who].mounted
  /\ log = << >>

\* ------------------------------------------- children added to a scene
\* C25: add_child triggers the mount hooks of the component it adds and
\* leaves it mounted; remove_child triggers the unmount hooks of the
\* component it removes when that one is mounted, and leaves it unmounted
\* and without focus.
C25_MountOnAddChild ==
  [][/\ last'.op = "add_child"
          => /\ comp'[last'.arg].mounted
             /\ Fired(log', "mount", last'.arg) = 1
     /\ last'.op = "remove_child"
          => /\ ~comp'[last'.arg].mounted /\ ~comp'[last'.arg].focused
             /\ Fired(log', "unmount", last'.arg) =
                  IF comp[last'.arg].mounted THEN 1 ELSE 0]_vars

\* ------------------------------------------------------ resetting a scene
\* the animation objects of the phase definitions of a scene
Defined(s) ==
  LET lists == {phases[s].entrance, phases[s].idle, phases[s].exit}
                 \cup {phases[s].custom[n] : n \in DOMAIN phases[s].custom}
  IN UNION {{l[i][2] : i \in 1..Len(l)} : l \in lists}

\* C26: reset() raises nothing and leaves the clock of the scene at 0, its
\* phase at None, its active list empty and every animation object of its
\* entrance, idle, exit and custom phases reset.
C26_SceneReset ==
  [][last'.op = "reset"
       => /\ ~ares'.err
          /\ stime'[last'.who] = 0
          /\ phase'[last'.who] = NoPhase
          /\ cur'[last'.who] = << >>
          /\ \A a \in Defined(last'.who) :
               ~anim'[a].completed /\ ~anim'[a].resolved]_vars

\* ------------------------------------------------------ scroll clamping
ClampTo(p, lo, hi) == IF p < lo THEN lo ELSE IF p > hi THEN hi ELSE p
MaxScroll(content, viewport) ==
  IF content > viewport THEN content - viewport ELSE 0

\* C27: set_scroll_position(p) leaves the position at p clamped to
\* [0, max(0, content_size - viewport_size)] (content 300, viewport 100: 1000
\* gives 200, -50 gives 0), set_content_size clamps the position it finds to
\* the new content, and after scroll_to / scroll_by of a TextComponent or a
\* TableComponent the manual offsets lie between 0 and the maximum scroll.
C27_ScrollClamped ==
  [][/\ last'.op = "set_scroll_position"
          => /\ sb'.scroll_position =
                  ClampTo(last'.arg, 0,
                          MaxScroll(sb.content_size, sb.viewport_size))
             /\ (sb.content_size = 300 /\ sb.viewport_size = 100)
                  => /\ last'.arg = 1000 => sb'.scroll_position = 200
                     /\ last'.arg = -50 => sb'.scroll_position = 0
     /\ last'.op = "set_content_size"
          => /\ sb'.content_size = last'.arg
             /\ sb'.scroll_position =
                  ClampTo(sb.scroll_position, 0,
                          MaxScroll(last'.arg, sb.viewport_size))
     /\ (last'.who = "txt" /\ last'.op \in {"scroll_to", "scroll_by"})
          => txt'.scroll_offset_x \in
               0..MaxScroll(txt'.text_width, txt'.width - 2 * txt'.padding)
     /\ (last'.who = "tbl" /\ last'.op \in {"scroll_to", "scroll_by"})
          => /\ tbl'.scroll_offset_x \in
                  0..MaxScroll(tbl'.full_width, tbl'.display_width)
             /\ tbl'.scroll_offset_y \in
                  0..MaxScroll(tbl'.full_height, tbl'.display_height)]_vars

\* the scenario: content 300, viewport 100, set_scroll_position(1000) gave 200
C27_Witness ==
  /\ last.op = "set_scroll_position" /\ last.arg = 1000
  /\ sb.content_size = 300 /\ sb.viewport_size = 100
  /\ sb.scroll_position = 200

\* ------------------------------------------------------ cache capacity
\* C28: whatever is rendered, the render cache of a component holds at most
\* the capacity of its decorator, and a call removes at most one key of it
\* and, only when it does insert one, adds at most one.
C28_CacheBounded ==
  [][\A id \in Comps :
       LET before == CacheKeys(comp[id].cache)
           after == CacheKeys(comp'[id].cache)
       IN /\ Len(comp'[id].cache) <= CacheMax(id)
          /\ Cardinality(after) = Len(comp'[id].cache)
          /\ Cardinality(before \ after) <= 1
          /\ Cardinality(after \ before) <= 1
          /\ before \ after # {}
               => after \ before # {} /\ Len(comp[id].cache) = CacheMax(id)]_vars

\* C28 witness: the scene and the leaf of its nested scene have both run
\* their body more often than their cache holds entries, and both caches
\* are at capacity
C28_Witness ==
  /\ last.op = "render" /\ last.who = "R"
  /\ comp["R"].calls > SceneCacheMax
  /\ Len(comp["R"].cache) = SceneCacheMax
  /\ comp["c"].calls > LeafCacheMax
  /\ Len(comp["c"].cache) = LeafCacheMax

\* ------------------------------------------------------ updates of a frame
\* the events that follow the start of the render of scene s
AfterRender(lg, s) ==
  LET i == CHOOSE j \in 1..Len(lg) : lg[j].ev = "render" /\ lg[j].who = s
  IN SubSeq(lg, i + 1, Len(lg))

\* the updates compute_state of scene s made on a child: the animation and
\* the elapsed time of each, in the order they were made
UpdatesOn(lg, s, child) ==
  LET made == SelectSeq(AfterRender(lg, s),
                        LAMBDA e : e.ev = "update" /\ e.who = s
                                     /\ e.child = child)
  IN [i \in 1..Len(made) |-> << made[i].anim, made[i].el >>]

\* the active pairs that target a child, each with the time elapsed since its
\* start, none before it
Due(pairs, child, scene_time) ==
  LET mine == SelectSeq(pairs, LAMBDA p : acfg[p[2]].target = child)
  IN [i \in 1..Len(mine) |->
        << mine[i][2],
           IF scene_time > mine[i][1] THEN scene_time - mine[i][1] ELSE 0 >>]

\* C29: at a frame, compute_state updates on every child exactly the active
\* animations that target it, in the order of the active list, each with
\* elapsed = max(0, scene_time - start_time); an animation that starts later
\* than the clock is updated with elapsed 0.
C29_ElapsedPerAnimation ==
  [][Frame =>
       LET s == current_scene IN
       \A child \in DOMAIN bag'[s] :
         UpdatesOn(log', s, child) = Due(cur'[s], child, stime'[s])]_vars

\* C29 witness: a frame updated two animations of one child, the second of
\* which starts after the clock of the scene and was given elapsed 0
C29_Witness ==
  /\ last.op = "frame" /\ last.who = "R" /\ "a" \in DOMAIN bag["R"]
  /\ Len(UpdatesOn(log, "R", "a")) = 2
  /\ cur["R"][2][1] > stime["R"]
  /\ UpdatesOn(log, "R", "a")[2] = << cur["R"][2][2], 0 >>

\* ------------------------------------------------------ phase completion
\* the active animations of scene s that have started by time t are completed
StartedCompleted(s, t) ==
  \A i \in 1..Len(cur[s]) : cur[s][i][1] <= t => anim[cur[s][i][2]].completed

\* no active animation of scene s starts after time t
AllStarted(s, t) == \A i \in 1..Len(cur[s]) : cur[s][i][1] <= t

\* C30: _check_phase_complete(t) is True exactly when the active list is
\* empty, or every active animation that has started by t is completed and
\* t has reached the largest start time of the list; so it is False while
\* an animation that starts after t is in the list.
C30_PhaseCompleteExactly ==
  \A s \in Scenes : \A t \in 0..(MaxTime + 1) :
    /\ check_phase_complete(Heap, s, t)
         <=> (cur[s] = << >> \/ (StartedCompleted(s, t) /\ AllStarted(s, t)))
    /\ ~AllStarted(s, t) => ~check_phase_complete(Heap, s, t)

\* C30 witness: a time by which every started animation of the scene is
\* completed while another one starts later, and the test is False
C30_Witness ==
  \E t \in 0..MaxTime :
    /\ \E i \in 1..Len(cur["R"]) : cur["R"][i][1] <= t
    /\ StartedCompleted("R", t) /\ ~AllStarted("R", t)
    /\ ~check_phase_complete(Heap, "R", t)

\* ------------------------------------------------------ parameter precedence
\* the value the bag holds for a parameter, 0 when it holds none
Current(bg, p) == IF p \in DOMAIN bg THEN bg[p] ELSE 0

\* the end value by precedence: each case excludes the dictionaries before it
ToValue(c, bg, p) ==
  LET ti == p \in DOMAIN c.to_params_int
      tri == p \in DOMAIN c.to_params_rel_int
      t == p \in DOMAIN c.to_params
      tr == p \in DOMAIN c.to_params_rel
  IN CASE ti -> c.to_params_int[p]
       [] ~ti /\ tri -> Current(bg, p) + c.to_params_rel_int[p]
       [] ~ti /\ ~tri /\ t -> c.to_params[p]
       [] ~ti /\ ~tri /\ ~t /\ tr -> Current(bg, p) + c.to_params_rel[p]
       [] OTHER -> Current(bg, p)

\* the start value by precedence, relative offsets taken from the end value
FromValue(c, bg, p) ==
  LET fi == p \in DOMAIN c.from_params_int
      fri == p \in DOMAIN c.from_params_rel_int
      f == p \in DOMAIN c.from_params
      fr == p \in DOMAIN c.from_params_rel
  IN CASE fi -> c.from_params_int[p]
       [] ~fi /\ fri -> ToValue(c, bg, p) + c.from_params_rel_int[p]
       [] ~fi /\ ~fri /\ f -> c.from_params[p]
       [] ~fi /\ ~fri /\ ~f /\ fr -> ToValue(c, bg, p) + c.from_params_rel[p]
       [] OTHER -> Current(bg, p)

\* C31: a resolution of an Animate that was not resolved yet records, for
\* every parameter named in one of its dictionaries, the end value by the
\* precedence to_params_int, to_params_rel_int (current + offset), to_params,
\* to_params_rel (current + offset), else the current value, and the start
\* value by from_params_int, from_params_rel_int (end value + offset),
\* from_params, from_params_rel (end value + offset), else the current value;
\* a parameter the bag does not hold has current value 0.
C31_ResolvePrecedence ==
  [][(last'.op = "resolve" /\ ~anim[Lerp].resolved) =>
       LET c == acfg[Lerp]
           named == DOMAIN c.to_params_int \cup DOMAIN c.to_params_rel_int
                      \cup DOMAIN c.to_params \cup DOMAIN c.to_params_rel
                      \cup DOMAIN c.from_params_int
                      \cup DOMAIN c.from_params_rel_int
                      \cup DOMAIN c.from_params \cup DOMAIN c.from_params_rel
       IN /\ anim'[Lerp].resolved
          /\ anim'[Lerp].rto = [p \in named |-> ToValue(c, pbag, p)]
          /\ anim'[Lerp].rfrom = [p \in named |-> FromValue(c, pbag, p)]]_vars

\* C31 witness: x is named by every dictionary but to_params_int and
\* from_params_int and is absent from the bag: the end value is 0 + the
\* to_params_rel_int offset and the start value that plus the
\* from_params_rel_int offset
C31_Witness ==
  /\ last.op = "resolve" /\ last.arg = FALSE
  /\ "x" \notin DOMAIN pbag
  /\ "x" \notin DOMAIN acfg[Lerp].to_params_int
  /\ "x" \notin DOMAIN acfg[Lerp].from_params_int
  /\ "x" \in DOMAIN acfg[Lerp].to_params /\ "x" \in DOMAIN acfg[Lerp].from_params
  /\ anim[Lerp].rto = P1("x", 20) /\ anim[Lerp].rfrom = P1("x", 220)

\* ------------------------------------------------------ the end of a Loop
\* C32: an update of a Loop with count n around an animation of duration
\* d > 0 returns True exactly when floor(elapsed / d) is at least n at this
\* update or was at an earlier one since the Loop was constructed or reset
\* (the Loop is then completed), and False otherwise; a Loop without count
\* has infinite duration, and an update of it never returns True and never
\* completes it.
C32_LoopCount ==
  [][(/\ last'.op = "update" /\ acfg[Direct].kind = "Loop"
      /\ WrappedDuration > 0 /\ ~ares'.err) =>
       IF acfg[Direct].count = -1
       THEN /\ acfg[Direct].duration = Infinity
            /\ ~ares'.ret /\ ~anim'[Direct].completed
       ELSE /\ ares'.ret <=>
                 (anim[Direct].completed
                    \/ last'.t \div WrappedDuration >= acfg[Direct].count)
            /\ anim'[Direct].completed <=> ares'.ret
            /\ ~anim[Direct].completed =>
                 anim[Direct].current_iteration < acfg[Direct].count]_vars

\* C32 witness: the Loop of two iterations of two time units was updated at
\* 4, where floor(4 / 2) reaches the count: it returned True and is completed
C32_Witness ==
  /\ last.op = "update" /\ Direct = "l1" /\ last.t = 4
  /\ WrappedDuration = 2 /\ acfg["l1"].count = 2
  /\ ares.ret /\ anim["l1"].completed
  /\ anim["l1"].current_iteration = 2

C34_OutlineFollowsFocus ==
  [][(last'.op = "render" /\ last'.who = "R" /\ debug') =>
       \A i \in 1..Len(ret'.px) :
         ret'.px[i].outline = comp'[ret'.px[i].child].focused]_vars

\* ------------------------------------------------------ idempotent snapshots
\* C35: a compute_state that follows a compute_state of the same scene, with
\* nothing done in between, returns the same snapshot and leaves every bag
\* and every animation object as the first call left them.
C35_ComputeStateIdempotent ==
  [][(/\ last.op = "compute_state" /\ last'.op = "compute_state"
      /\ last'.who = last.who)
       => (last'.arg = last.arg /\ bag' = bag /\ anim' = anim)]_vars

\* ------------------------------------------------------ entering a scene
\* C36: transition_to at orchestrator clock T schedules every entrance
\* animation of the new scene at T plus its offset.
C36_EntranceAtOrchestratorClock ==
  [][last'.op = "transition_to" =>
       LET s == last'.who
           found == PhaseAnimations(Heap, s, "entrance")[1]
       IN cur'[s] = [i \in 1..Len(found) |->
                       << otime + found[i][1], found[i][2] >>]]_vars

\* ------------------------------------------------------ slide out, slide in
\* C37: when the SlideIn of the entrance completes after the SlideOut of the
\* exit has run to completion, the child is back at its resting position
\* (0, 0).
C37_SlideRoundTrip ==
  [][(/\ anim["x1"].completed
      /\ ~anim["e1"].completed /\ anim'["e1"].completed)
       => (bag'["R"]["a"]["x"] = 0 /\ bag'["R"]["a"]["y"] = 0)]_vars

\* ------------------------------------------------------ leaving the entrance
\* C38: a scene in its entrance phase, rendered at every tick of the clock,
\* eventually is in another phase or in none.
C38_EntranceEnds ==
  (phase["R"] = "entrance") ~> (phase["R"] # "entrance")

\* ------------------------------------------------------ stopping a busy loop
\* C39: while the loop of start_async runs, the stop of a coroutine of the
\* same event loop is eventually executed and the loop then ends, whether
\* the frames take less or more than the frame interval.
C39_StopEventuallyExecuted ==
  (pc \notin {"new", "done"}) ~> (pc = "done")

\* ------------------------------------------------------ the clock of a nested scene
\* the updates the scene s made in the last operation
UpdatesOf(lg, s) == {i \in 1..Len(lg) : lg[i].ev = "update" /\ lg[i].who = s}

\* the start time of the active animation a of scene s
StartOf(s, a) ==
  cur[s][CHOOSE i \in 1..Len(cur[s]) : cur[s][i][2] = a][1]

\* C40: at a frame of the driver at clock T, every update the nested scene N
\* makes on an active animation is given the time elapsed from the start of
\* the animation to T.
C40_NestedElapsed ==
  [][(last'.op = "frame" /\ last'.who = "R") =>
       \A i \in UpdatesOf(log', "N") :
         log'[i].el = Max2(0, otime' - StartOf("N", log'[i].anim))]_vars

\* the entrance animation of the nested scene, once started, is eventually
\* completed
NestedEntranceCompletes ==
  (phase["N"] = "entrance") ~> anim["s1"].completed

====
